---- MODULE Spec2Model ----
(***************************************************************************)
(* A model of iib/workers/tasks/utils.py: the registry-credential scopes   *)
(* (set_registry_token, set_registry_auths, reset_docker_config), the      *)
(* retry wrapper, the cached skopeo_inspect wrapper, the request           *)
(* preparation (prepare_request_for_build), get_index_image_info and       *)
(* get_resolved_bundles.                                                   *)
(*                                                                         *)
(* Each component has a specification of its own (SpecCred, SpecRetry,     *)
(* SpecInspect, SpecPrepare, SpecIndexInfo, SpecBundles) over the same     *)
(* variables, the others standing idle; Spec is their interleaving.        *)
(***************************************************************************)
EXTENDS Integers, Sequences, FiniteSets, TLC

VARIABLES
    dockerConfig,   \* ~/.docker/config.json: absent, a symlink to the template, or a plain file
    template,       \* conf.iib_docker_config_template: absent, unparsable, or a JSON document
    stack,          \* the active credential scopes, outermost first
    retry,          \* one call of a function wrapped by retry(attempts, wait_on)
    cache,          \* the dogpile region behind skopeo_inspect: call signature -> result
    insp,           \* the skopeo_inspect call in progress
    prep,           \* the prepare_request_for_build call in progress
    idx,            \* the get_index_image_info call in progress
    rb,             \* the get_resolved_bundles call in progress
    call,           \* the call in progress of one of the smaller functions
    procs           \* credential scopes of workers running side by side

credVars == <<dockerConfig, template, stack>>
nonCredVars == <<retry, cache, insp, prep, idx, rb, call, procs>>
nonRetryVars == <<dockerConfig, template, stack, cache, insp, prep, idx, rb, call, procs>>
nonInspectVars == <<dockerConfig, template, stack, retry, prep, idx, rb, call, procs>>
nonPrepareVars == <<dockerConfig, template, stack, retry, cache, insp, idx, rb, call, procs>>
nonIndexInfoVars == <<retry, cache, insp, prep, rb, call, procs>>
nonBundlesVars == <<dockerConfig, template, stack, retry, cache, insp, prep, idx, call, procs>>
nonCallVars == <<dockerConfig, template, stack, retry, cache, insp, prep, idx, rb, procs>>
vars == <<dockerConfig, template, stack, retry, cache, insp, prep, idx, rb, call, procs>>

(***************************************************************************)
(* Bounds                                                                  *)
(***************************************************************************)
\* Deepest nesting of credential scopes explored.
MaxDepth == 2
\* Largest number of attempts a retry wrapper is configured with.
MaxAttempts == 4
\* Longest list of bundles in a request.
MaxBundles == 2
MaxResets == 3
MaxLines == 2

(***************************************************************************)
(* Values                                                                  *)
(***************************************************************************)
\* Python's None and the empty string are both falsy.
Falsy(x) == x \in {"None", ""}

Registries == {"r1", "r2"}
Tokens == {"None", "", "u:p"}
Images == {"None", "", "r1/ns/index:v1", "r2/ns/index:v1"}

\* operator_manifest's ImageName.parse(container_image).registry
ImageRegistry(container_image) ==
    CASE container_image = "r1/ns/index:v1" -> "r1"
      [] container_image = "r2/ns/index:v1" -> "r2"
      [] container_image = "r1/ns/source:v1" -> "r1"
      [] container_image = "r2/ns/target:v1" -> "r2"
      [] OTHER -> "None"

\* base64.b64encode(token.encode('utf-8')).decode('utf-8')
b64encode(token) ==
    CASE token = "u:p" -> "dTpw"
      [] token = "" -> ""
      [] OTHER -> "Tm9uZQ=="

\* An auths mapping: registry -> auth string, on some of the registries.
NoEntries == [r \in {} |-> ""]
OneEntry(r, a) == [x \in {r} |-> a]

\* A JSON document of the credential file: its 'auths' and the rest of its keys.
EmptyConfig == [auths |-> NoEntries, rest |-> ""]

\* dict.update: the entries of b override those of a, the others of a stay.
DictUpdate(a, b) ==
    [r \in (DOMAIN a) \cup (DOMAIN b) |-> IF r \in DOMAIN b THEN b[r] ELSE a[r]]

\* The registry_auths argument: None and {} are falsy, {'auths': {...}} is not.
NoAuths == [truthy |-> FALSE, auths |-> NoEntries]
SomeAuths(m) == [truthy |-> TRUE, auths |-> m]

Absent == [kind |-> "absent", content |-> EmptyConfig]
Symlink == [kind |-> "symlink", content |-> EmptyConfig]
PlainFile(c) == [kind |-> "file", content |-> c]

\* What a reader of the credential path sees: whether it exists, whether it
\* parses, and its content (a symlink is followed to the template).
ReadState(path, tmpl) ==
    CASE path.kind = "file" -> [exists |-> TRUE, parses |-> TRUE, content |-> path.content]
      [] path.kind = "symlink" /\ tmpl.kind = "json" ->
            [exists |-> TRUE, parses |-> TRUE, content |-> tmpl.content]
      [] path.kind = "symlink" /\ tmpl.kind = "bad" ->
            [exists |-> TRUE, parses |-> FALSE, content |-> EmptyConfig]
      [] OTHER -> [exists |-> FALSE, parses |-> FALSE, content |-> EmptyConfig]

\* os.path.exists(conf.iib_docker_config_template)
TemplateExists(tmpl) == tmpl.kind # "absent"

(***************************************************************************)
(* reset_docker_config, in its two file operations                         *)
(***************************************************************************)
\* A variant of os_remove that leaves the path as it is.
os_remove_Keep(path) == path

\* os.remove(docker_config_path), FileNotFoundError swallowed
os_remove(path) == Absent

\* os.symlink(template, docker_config_path) when the template exists
reset_symlink(path, tmpl) ==
    IF TemplateExists(tmpl) THEN Symlink ELSE path

\* The whole of reset_docker_config.
reset_docker_config(path, tmpl) == reset_symlink(os_remove(path), tmpl)

(***************************************************************************)
(* retry: its two decisions                                                *)
(***************************************************************************)
\* A variant of Catches that retries on every exception.
Catches_Everything(wait_on, cls) == TRUE

\* A variant of GivesUp that allows one attempt too many.
GivesUp_OffByOne(remaining_attempts) == remaining_attempts < 0

\* "except wait_on": the raised class is wait_on or a subclass of it. IIBError
\* and KeyError are both subclasses of Exception and unrelated to each other.
Catches(wait_on, cls) == wait_on = "Exception" \/ wait_on = cls

\* "if remaining_attempts <= 0: raise"
GivesUp(remaining_attempts) == remaining_attempts <= 0

NoResult == [kind |-> "none", val |-> "", from |-> 0]

(***************************************************************************)
(* skopeo_inspect: the call signatures, the registry, the function body    *)
(***************************************************************************)
TagRef == "docker://r1/ns/image:v1"
DigestRefV2 == "docker://r1/ns/image@sha256:aa"
DigestRefV1 == "docker://r1/ns/image@sha256:bb"
InspectRefs == {TagRef, DigestRefV2, DigestRefV1}

\* The five ways this file calls skopeo_inspect(ref, flag, return_json=,
\* require_media_type=).
CallShapes ==
    {[flag |-> "--raw", return_json |-> TRUE, require_media_type |-> TRUE],
     [flag |-> "--raw", return_json |-> FALSE, require_media_type |-> FALSE],
     [flag |-> "--raw", return_json |-> TRUE, require_media_type |-> FALSE],
     [flag |-> "--config", return_json |-> TRUE, require_media_type |-> FALSE],
     [flag |-> "", return_json |-> TRUE, require_media_type |-> FALSE]}

InspectKeys ==
    {[ref |-> r, flag |-> c.flag, return_json |-> c.return_json,
      require_media_type |-> c.require_media_type] : r \in InspectRefs, c \in CallShapes}

ManifestList == "application/vnd.docker.distribution.manifest.list.v2+json"
ManifestV2 == "application/vnd.docker.distribution.manifest.v2+json"

\* What the skopeo process prints on exit 0. A raw manifest carries its
\* mediaType unless it is a schema 1 manifest; the config and the plain
\* inspection output carry none. A digest names one manifest for ever, a tag
\* may name another one at every call.
Stdout(doc, mediaType, schemaVersion) ==
    [rc |-> 0, doc |-> doc, mediaType |-> mediaType, schemaVersion |-> schemaVersion]
CommandFailed == [rc |-> 1, doc |-> "", mediaType |-> "None", schemaVersion |-> 0]

RawManifests(ref) ==
    CASE ref = DigestRefV2 -> {Stdout("manifest", ManifestV2, 2)}
      [] ref = DigestRefV1 -> {Stdout("manifest", "None", 1)}
      [] OTHER -> {Stdout("manifest", ManifestList, 2), Stdout("manifest", ManifestV2, 2),
                   Stdout("manifest", "None", 1)}

\* run_cmd(['skopeo', ..., 'inspect'] + args): the process may always fail.
CommandOutcomes(key) ==
    {CommandFailed} \cup
    (CASE key.flag = "--raw" -> RawManifests(key.ref)
       [] key.flag = "--config" -> {Stdout("config", "None", 0)}
       [] OTHER -> {Stdout("inspect", "None", 0)})

\* A variant of MediaTypeNotFound that never checks.
MediaTypeNotFound_Unchecked(key, out) == FALSE

\* "if require_media_type and not json_output.get('mediaType')"
MediaTypeNotFound(key, out) == key.require_media_type /\ out.mediaType = "None"

\* The body of skopeo_inspect on the outcome of its command: run_cmd raises
\* IIBError on a non-zero exit; the raw output is returned unparsed when
\* return_json is false; else the mediaType check, then the parsed output.
skopeo_inspect_body(key, out) ==
    IF out.rc # 0 THEN [kind |-> "raise", val |-> "IIBError", out |-> out]
    ELSE IF ~key.return_json THEN [kind |-> "return", val |-> "str", out |-> out]
    ELSE IF MediaTypeNotFound(key, out) THEN [kind |-> "raise", val |-> "IIBError", out |-> out]
    ELSE [kind |-> "return", val |-> "dict", out |-> out]

\* skopeo_inspect_should_use_cache: only a digest-pinned docker:// reference
\* is looked up in, and stored to, the cache.
skopeo_inspect_should_use_cache(key) == key.ref \in {DigestRefV2, DigestRefV1}

\* dogpile_cache's store: a returned value is kept under the call signature.
CacheSet(c, key, res) == (key :> res) @@ c

NoKey == [ref |-> "", flag |-> "", return_json |-> TRUE, require_media_type |-> FALSE]
NoInspectResult == [kind |-> "none", val |-> "", out |-> CommandFailed]
IdleInspect(attempts) ==
    [pc |-> "idle", attempts |-> attempts, key |-> NoKey, remaining_attempts |-> 0,
     runs |-> 0, hits |-> 0, result |-> NoInspectResult, cacheAtCall |-> <<>>]

(***************************************************************************)
(* The request configs and the pure steps of prepare_request_for_build     *)
(***************************************************************************)
Arches == {"amd64", "ppc64le", "s390x"}

\* The order sorted() puts the architecture names in.
ArchOrder(a) == CASE a = "amd64" -> 1 [] a = "ppc64le" -> 2 [] OTHER -> 3

\* sorted(S), as a list
RECURSIVE sorted(_)
sorted(S) ==
    IF S = {} THEN <<>>
    ELSE LET m == CHOOSE x \in S : \A y \in S : ArchOrder(x) <= ArchOrder(y)
         IN <<m>> \o sorted(S \ {m})

\* An optional list or set: None, or a value.
None(empty) == [some |-> FALSE, v |-> empty]
Some(v) == [some |-> TRUE, v |-> v]

\* __slots__ of the two config classes: the attributes hasattr() finds.
Slots(variant) ==
    {"_binary_image", "distribution_scope", "binary_image_config"} \cup
    (IF variant = "RequestConfigAddRm"
     THEN {"overwrite_from_index_token", "from_index", "add_arches", "bundles", "operators"}
     ELSE {"source_from_index", "target_index", "overwrite_target_index_token"})

hasattr(cfg, name) == name \in Slots(cfg.variant)

\* The binary image table of the worker configuration: scope -> ocp version
\* -> pull spec; "None" where there is no entry.
BinaryImageTable(name, distribution_scope, ocp_version) ==
    CASE name = "full" /\ distribution_scope = "prod" /\ ocp_version = "v4.5" -> "binary:prod-4.5"
      [] name = "full" /\ distribution_scope = "prod" /\ ocp_version = "v4.6" -> "binary:prod-4.6"
      [] name = "full" /\ distribution_scope = "stage" /\ ocp_version = "v4.5" -> "binary:stage-4.5"
      [] name = "full" /\ distribution_scope = "dev" /\ ocp_version = "v4.6" -> "binary:dev-4.6"
      [] name = "full" /\ distribution_scope = "dev" /\ ocp_version = "v4.5" -> ""
      [] OTHER -> "None"

Raise(cls, at, detail) == [kind |-> "raise", cls |-> cls, at |-> at, detail |-> detail, val |-> "None"]
Return(v) == [kind |-> "return", cls |-> "None", at |-> "None", detail |-> <<>>, val |-> v]

\* get_binary_image_from_config
get_binary_image_from_config(ocp_version, distribution_scope, binary_image_config) ==
    LET binary_image == BinaryImageTable(binary_image_config, distribution_scope, ocp_version)
    IN IF Falsy(binary_image) THEN Raise("IIBError", "binary_image", <<>>)
       ELSE Return(binary_image)

\* A variant of binary_image that looks the table up first.
binary_image_TableFirst(cfg, index_info, distribution_scope) ==
    LET r == get_binary_image_from_config(index_info.ocp_version, distribution_scope,
                                          cfg.binary_image_config)
    IN IF r.kind = "raise" \/ Falsy(cfg._binary_image) THEN r ELSE Return(cfg._binary_image)

\* RequestConfig.binary_image
binary_image(cfg, index_info, distribution_scope) ==
    IF Falsy(cfg._binary_image)
    THEN get_binary_image_from_config(index_info.ocp_version, distribution_scope,
                                      cfg.binary_image_config)
    ELSE Return(cfg._binary_image)

\* scopes.index(x) in ["dev", "stage", "prod"]; -1 stands for its ValueError
ScopesIndex(x) ==
    CASE x = "dev" -> 0 [] x = "stage" -> 1 [] x = "prod" -> 2 [] OTHER -> -1

\* A variant of validate_distribution_scope that also rejects the same scope.
validate_distribution_scope_Strict(resolved_distribution_scope, distribution_scope) ==
    IF Falsy(distribution_scope) THEN Return(resolved_distribution_scope)
    ELSE IF ScopesIndex(distribution_scope) >= ScopesIndex(resolved_distribution_scope)
    THEN Raise("IIBError", "distribution_scope", <<>>)
    ELSE Return(distribution_scope)

\* _validate_distribution_scope
validate_distribution_scope(resolved_distribution_scope, distribution_scope) ==
    IF Falsy(distribution_scope) THEN Return(resolved_distribution_scope)
    ELSE IF ScopesIndex(distribution_scope) = -1 \/ ScopesIndex(resolved_distribution_scope) = -1
    THEN Raise("ValueError", "distribution_scope", <<>>)
    ELSE IF ScopesIndex(distribution_scope) > ScopesIndex(resolved_distribution_scope)
    THEN Raise("IIBError", "distribution_scope", <<>>)
    ELSE Return(distribution_scope)

\* A variant of gather_index_image_arches that looks at the from_index only.
gather_index_image_arches_FromIndexOnly(cfg, index_image_infos) ==
    LET arches == (IF hasattr(cfg, "add_arches") /\ cfg.add_arches.some
                   THEN cfg.add_arches.v ELSE {})
                  \cup index_image_infos["from_index"].arches
    IN IF arches = {} THEN Raise("IIBError", "arches", <<>>) ELSE Return(arches)

\* gather_index_image_arches
gather_index_image_arches(cfg, index_image_infos) ==
    LET arches == (IF hasattr(cfg, "add_arches") /\ cfg.add_arches.some
                   THEN cfg.add_arches.v ELSE {})
                  \cup UNION {index_image_infos[n].arches : n \in DOMAIN index_image_infos}
    IN IF arches = {} THEN Raise("IIBError", "arches", <<>>) ELSE Return(arches)

\* What get_image_arches reads: the raw manifest (its mediaType and, if it has
\* the key, its 'manifests', each entry by its platform's architecture) and,
\* for a v2 manifest, the image config (its 'architecture'; "None": no such key).
RawManifest(mediaType, manifests) == [mediaType |-> mediaType, manifests |-> manifests]
ImageConfig(architecture) == [architecture |-> architecture]

\* get_image_arches: a manifest list gives the architectures of its entries,
\* a v2 manifest the architecture of its config, anything else an IIBError;
\* a key that is not there is a KeyError.
get_image_arches(skopeo_raw, skopeo_out) ==
    IF skopeo_raw.mediaType = ManifestList
    THEN IF ~skopeo_raw.manifests.some
              \/ \E j \in DOMAIN skopeo_raw.manifests.v : skopeo_raw.manifests.v[j] = "None"
         THEN Raise("KeyError", "resolve_binary_image", <<>>)
         ELSE Return({skopeo_raw.manifests.v[j] : j \in DOMAIN skopeo_raw.manifests.v})
    ELSE IF skopeo_raw.mediaType = ManifestV2
    THEN IF skopeo_out.architecture = "None"
         THEN Raise("KeyError", "resolve_binary_image", <<>>)
         ELSE Return({skopeo_out.architecture})
    ELSE Raise("IIBError", "resolve_binary_image", <<>>)

\* A variant of MissingArches with the difference the wrong way round.
MissingArches_Reversed(arches, binary_image_arches) == binary_image_arches \ arches

\* arches - binary_image_arches
MissingArches(arches, binary_image_arches) == arches \ binary_image_arches

\* "if not arches.issubset(binary_image_arches): raise IIBError(...sorted(...))"
check_binary_image_arches(arches, binary_image_arches) ==
    IF ~(arches \subseteq binary_image_arches)
    THEN Raise("IIBError", "binary_image_arches",
               sorted(MissingArches(arches, binary_image_arches)))
    ELSE Return("None")

\* The result get_index_image_info starts from, and returns for no from_index.
DefaultIndexInfo(default_ocp_version) ==
    [resolved_from_index |-> "None", ocp_version |-> default_ocp_version,
     arches |-> {}, resolved_distribution_scope |-> "prod"]

\* A variant of ResolvedIndexInfo without the fallbacks for missing labels.
ResolvedIndexInfo_NoFallback(resolved, arches, version_label, scope_label) ==
    [resolved_from_index |-> resolved, ocp_version |-> version_label,
     arches |-> arches, resolved_distribution_scope |-> scope_label]

\* The result of get_index_image_info for an index that was inspected: its
\* digest-pinned pull spec, arches and the two labels ("None": no such label).
ResolvedIndexInfo(resolved, arches, version_label, scope_label) ==
    [resolved_from_index |-> resolved,
     ocp_version |-> IF Falsy(version_label) THEN "v4.5" ELSE version_label,
     arches |-> arches,
     resolved_distribution_scope |-> IF Falsy(scope_label) THEN "prod" ELSE scope_label]

\* The (index, version) pairs prepare_request_for_build asks for, in order.
IndexVersionMap ==
    <<[index |-> "from_index", version |-> "v4.5"],
      [index |-> "source_from_index", version |-> "v4.5"],
      [index |-> "target_index", version |-> "v4.6"]>>

\* getattr(build_request_config, index) if it has the attribute, else None
IndexOf(cfg, index) ==
    IF ~hasattr(cfg, index) THEN "None"
    ELSE CASE index = "from_index" -> cfg.from_index
           [] index = "source_from_index" -> cfg.source_from_index
           [] OTHER -> cfg.target_index

\* The scope handed to the validation as the resolved one.
ResolvedScopeFor(cfg, index_info) ==
    IF hasattr(cfg, "source_from_index") /\ ~Falsy(cfg.source_from_index)
    THEN index_info["target_index"].resolved_distribution_scope
    ELSE index_info["from_index"].resolved_distribution_scope

(***************************************************************************)
(* set_registry_token / set_registry_auths                                 *)
(***************************************************************************)
\* A variant of TokenPassThrough that forgets the container_image test.
TokenPassThrough_TokenOnly(token, container_image) == Falsy(token)

\* set_registry_token's two early exits: "if not token", "if not container_image".
TokenPassThrough(token, container_image) == Falsy(token) \/ Falsy(container_image)

\* registry_auths = {'auths': {registry: {'auth': encoded_token}}}
TokenAuths(token, container_image) ==
    SomeAuths(OneEntry(ImageRegistry(container_image), b64encode(token)))

\* set_registry_auths's early exit: "if not registry_auths".
AuthsPassThrough(registry_auths) == ~registry_auths.truthy

\* A variant of MergeAuths that assigns the supplied auths instead of merging.
MergeAuths_Overwrite(docker_config, registry_auths) ==
    [docker_config EXCEPT !.auths = registry_auths.auths]

\* docker_config.setdefault('auths', {}); docker_config['auths'].update(...)
MergeAuths(docker_config, registry_auths) ==
    [docker_config EXCEPT !.auths = DictUpdate(@, registry_auths.auths)]

\* A variant of LeaveTry without the finally: only a body that returns resets.
LeaveTry_NoFinally(f, e) ==
    IF e = "none" THEN [f EXCEPT !.pc = "reset_remove", !.exc = e]
    ELSE [f EXCEPT !.pc = "exited", !.exc = e]

\* try: ... finally: reset_docker_config(): every way out of the try block,
\* with the exception e in flight ("none": the body returned), goes through
\* the reset.
LeaveTry(f, e) == [f EXCEPT !.pc = "reset_remove", !.exc = e]

Top == stack[Len(stack)]
SetTop(f) == [stack EXCEPT ![Len(stack)] = f]

\* A scope's frame. A pass-through scope never looks at its arguments again, so
\* its frame keeps only whether one of them was absent; a scope that overrides
\* keeps the token and the image its registry_auths were derived from.
NewFrame(fn, token, image, ra, pass) ==
    [fn |-> fn,
     token |-> IF pass THEN "None" ELSE token,
     image |-> IF pass THEN "None" ELSE image,
     argAbsent |-> Falsy(token) \/ Falsy(image),
     registry_auths |-> ra,
     pass |-> pass,
     pc |-> IF pass THEN "body" ELSE "remove",
     exc |-> "none",
     docker_config |-> EmptyConfig,
     \* history, for the properties only
     pre |-> ReadState(dockerConfig, template),
     prePath |-> dockerConfig,
     resets |-> 0, fsOps |-> 0, bodyRuns |-> 0, raised |-> "none",
     inner |-> "none"]

CanCall == Len(stack) < MaxDepth /\ (IF stack = <<>> THEN TRUE ELSE Top.pc = "body")

\* A scope that really overrides is being opened inside every body on the stack.
MarkInner(s, pass) ==
    IF pass THEN s ELSE [i \in DOMAIN s |-> [s[i] EXCEPT !.inner = "opened"]]

\* set_registry_token(token, container_image) is entered: the registry_auths
\* are derived and handed to set_registry_auths, or the scope passes through.
EnterTokenScope(token, container_image) ==
    /\ CanCall
    /\ LET pass == TokenPassThrough(token, container_image)
           ra == IF pass THEN NoAuths ELSE TokenAuths(token, container_image)
       IN stack' = Append(MarkInner(stack, pass),
                          NewFrame("set_registry_token", token, container_image, ra, pass))
    /\ UNCHANGED <<dockerConfig, template>>

\* with set_registry_token(token, container_image): ...   up to the body
set_registry_token(token, container_image) ==
    /\ EnterTokenScope(token, container_image)
    /\ UNCHANGED nonCredVars

\* with set_registry_auths(registry_auths): ...   up to the body
set_registry_auths(registry_auths) ==
    /\ CanCall
    /\ LET pass == AuthsPassThrough(registry_auths)
       IN stack' = Append(MarkInner(stack, pass),
                          NewFrame("set_registry_auths", "None", "None", registry_auths, pass))
    /\ UNCHANGED <<dockerConfig, template, nonCredVars>>

\* os.remove(docker_config_path) at the head of the try block
RemoveConfig ==
    /\ stack # <<>> /\ Top.pc = "remove"
    /\ dockerConfig' = os_remove(dockerConfig)
    /\ stack' = SetTop([Top EXCEPT !.pc = "read", !.fsOps = @ + 1])
    /\ UNCHANGED <<template, nonCredVars>>

\* json.load of the template if it exists, else {}
ReadTemplate ==
    /\ stack # <<>> /\ Top.pc = "read"
    /\ stack' = SetTop(
         IF template.kind = "bad"
         THEN LeaveTry([Top EXCEPT !.fsOps = @ + 1, !.raised = "JSONDecodeError"],
                       "JSONDecodeError")
         ELSE [Top EXCEPT !.pc = "write", !.fsOps = @ + 1,
                          !.docker_config = IF TemplateExists(template)
                                            THEN template.content ELSE EmptyConfig])
    /\ UNCHANGED <<dockerConfig, template, nonCredVars>>

\* the merge, then open(docker_config_path, 'w') and json.dump
WriteConfig ==
    /\ stack # <<>> /\ Top.pc = "write"
    /\ LET merged == MergeAuths(Top.docker_config, Top.registry_auths)
       IN /\ dockerConfig' = PlainFile(merged)
          /\ stack' = SetTop([Top EXCEPT !.pc = "body", !.fsOps = @ + 1,
                                         !.docker_config = merged])
    /\ UNCHANGED <<template, nonCredVars>>

\* the write fails (OSError): nothing, or an empty file, is left behind
WriteConfigFails ==
    /\ stack # <<>> /\ Top.pc = "write"
    /\ dockerConfig' \in {dockerConfig, PlainFile(EmptyConfig)}
    /\ stack' = SetTop(LeaveTry([Top EXCEPT !.fsOps = @ + 1, !.raised = "OSError",
                                 !.docker_config = MergeAuths(@, Top.registry_auths)],
                                "OSError"))
    /\ UNCHANGED <<template, nonCredVars>>

\* Control leaves the body of the innermost scope, with e in flight.
EndBody(e) ==
    /\ stack # <<>> /\ Top.pc = "body"
    /\ stack' = SetTop(
         LET f == [Top EXCEPT !.bodyRuns = @ + 1, !.raised = e]
         IN IF f.pass THEN [f EXCEPT !.pc = "exited", !.exc = e] ELSE LeaveTry(f, e))
    /\ UNCHANGED <<dockerConfig, template>>

\* The end of the body of the innermost scope: it returns (e = "none") or raises.
BodyEnds(e) ==
    /\ EndBody(e)
    /\ UNCHANGED nonCredVars

\* finally: reset_docker_config(), first half
ResetRemove ==
    /\ stack # <<>> /\ Top.pc = "reset_remove"
    /\ dockerConfig' = os_remove(dockerConfig)
    /\ stack' = SetTop([Top EXCEPT !.pc = "reset_symlink", !.fsOps = @ + 1,
                                   !.resets = @ + 1])
    /\ UNCHANGED <<template, nonCredVars>>

\* finally: reset_docker_config(), second half
ResetSymlink ==
    /\ stack # <<>> /\ Top.pc = "reset_symlink"
    /\ dockerConfig' = reset_symlink(dockerConfig, template)
    /\ stack' = SetTop([Top EXCEPT !.pc = "exited"])
    /\ UNCHANGED <<template, nonCredVars>>

\* The with statement is left: the frame is popped and its exception, if any,
\* is raised in the enclosing body.
LeaveScope ==
    /\ stack # <<>> /\ Top.pc = "exited"
    /\ LET f == Top
           rest == SubSeq(stack, 1, Len(stack) - 1)
           seen == IF f.pass THEN rest
                   ELSE [i \in DOMAIN rest |-> [rest[i] EXCEPT !.inner = "exited"]]
       IN stack' =
            IF seen = <<>> \/ f.exc = "none" THEN seen
            ELSE LET p == [seen[Len(seen)] EXCEPT !.bodyRuns = @ + 1, !.raised = f.exc]
                 IN [seen EXCEPT ![Len(seen)] =
                       IF p.pass THEN [p EXCEPT !.pc = "exited", !.exc = f.exc]
                       ELSE LeaveTry(p, f.exc)]
    /\ UNCHANGED <<dockerConfig, template>>

\* The scope is left: its exception, if any, is raised in the enclosing body.
ScopeExit ==
    /\ LeaveScope
    /\ UNCHANGED nonCredVars

(***************************************************************************)
(* retry(attempts, wait_on)(function)                                      *)
(***************************************************************************)
\* What one invocation of the wrapped function does.
ReturnValues == {"a", "b"}
ExceptionClasses == {"IIBError", "KeyError"}
Outcomes == {[kind |-> "return", val |-> v] : v \in ReturnValues}
            \cup {[kind |-> "raise", val |-> c] : c \in ExceptionClasses}

\* inner(*args, **kwargs) is entered: remaining_attempts = attempts
RetryCall(attempts, wait_on) ==
    /\ retry.pc = "idle"
    /\ retry' = [pc |-> "running", attempts |-> attempts, wait_on |-> wait_on,
                 remaining_attempts |-> attempts, calls |-> <<>>, result |-> NoResult]
    /\ UNCHANGED nonRetryVars

\* One turn of "while True": the function is invoked and returns or raises o.
RetryInvoke(o) ==
    /\ retry.pc = "running"
    /\ LET n == Len(retry.calls) + 1
           called == [retry EXCEPT !.calls = Append(@, o)]
           left == retry.remaining_attempts - 1
       IN retry' =
            IF o.kind = "return"
            THEN [called EXCEPT !.pc = "returned",
                                !.result = [kind |-> "return", val |-> o.val, from |-> n]]
            ELSE IF ~Catches(retry.wait_on, o.val)
            THEN [called EXCEPT !.pc = "raised",
                                !.result = [kind |-> "raise", val |-> o.val, from |-> n]]
            ELSE IF GivesUp(left)
            THEN [called EXCEPT !.pc = "raised", !.remaining_attempts = left,
                                !.result = [kind |-> "raise", val |-> o.val, from |-> n]]
            ELSE [called EXCEPT !.remaining_attempts = left]
    /\ UNCHANGED nonRetryVars

\* The caller has the result; the wrapper can be called again.
RetryDone ==
    /\ retry.pc \in {"returned", "raised"}
    /\ retry' = [retry EXCEPT !.pc = "idle"]
    /\ UNCHANGED nonRetryVars

(***************************************************************************)
(* skopeo_inspect = retry(wait_on=IIBError)(dogpile_cache(...)(body))      *)
(***************************************************************************)
\* skopeo_inspect(*args, **kwargs) is called: the retry wrapper starts.
InspectCall(key) ==
    /\ insp.pc = "idle"
    /\ insp' = [insp EXCEPT !.pc = "running", !.key = key,
                            !.remaining_attempts = insp.attempts,
                            !.runs = 0, !.hits = 0, !.result = NoInspectResult,
                            !.cacheAtCall = cache]
    /\ UNCHANGED <<cache, nonInspectVars>>

\* One attempt that the cache answers: no command is run.
InspectCacheHit ==
    /\ insp.pc = "running"
    /\ skopeo_inspect_should_use_cache(insp.key) /\ insp.key \in DOMAIN cache
    /\ insp' = [insp EXCEPT !.pc = "returned", !.hits = @ + 1, !.result = cache[insp.key]]
    /\ UNCHANGED <<cache, nonInspectVars>>

\* One attempt that runs the command, with outcome out: a returned value is
\* stored if the call is eligible; an IIBError is retried or, with no attempt
\* left, raised.
InspectRun(out) ==
    /\ insp.pc = "running"
    /\ ~(skopeo_inspect_should_use_cache(insp.key) /\ insp.key \in DOMAIN cache)
    /\ out \in CommandOutcomes(insp.key)
    /\ LET res == skopeo_inspect_body(insp.key, out)
           ran == [insp EXCEPT !.runs = @ + 1]
           left == insp.remaining_attempts - 1
       IN IF res.kind = "return"
          THEN /\ insp' = [ran EXCEPT !.pc = "returned", !.result = res]
               /\ cache' = IF skopeo_inspect_should_use_cache(insp.key)
                           THEN CacheSet(cache, insp.key, res) ELSE cache
          ELSE /\ cache' = cache
               /\ insp' = IF ~Catches("IIBError", res.val) \/ GivesUp(left)
                          THEN [ran EXCEPT !.pc = "raised", !.remaining_attempts = left,
                                           !.result = res]
                          ELSE [ran EXCEPT !.remaining_attempts = left]
    /\ UNCHANGED nonInspectVars

\* The caller has the result.
InspectDone ==
    /\ insp.pc \in {"returned", "raised"}
    /\ insp' = IdleInspect(insp.attempts)
    /\ UNCHANGED <<cache, nonInspectVars>>

(***************************************************************************)
(* prepare_request_for_build                                               *)
(***************************************************************************)
IndexRef == "r1/ns/index:v1"
SourceRef == "r1/ns/source:v1"
TargetRef == "r2/ns/target:v1"

\* get_resolved_image of a pull spec that can be inspected: name@digest.
ResolvedSpec(pull_spec) ==
    CASE pull_spec = IndexRef -> "r1/ns/index@sha256:1a"
      [] pull_spec = SourceRef -> "r1/ns/source@sha256:2b"
      [] pull_spec = TargetRef -> "r2/ns/target@sha256:3c"
      [] pull_spec = "binary:override" -> "binary@sha256:0f"
      [] pull_spec = "binary:prod-4.5" -> "binary@sha256:45"
      [] pull_spec = "binary:prod-4.6" -> "binary@sha256:46"
      [] pull_spec = "binary:stage-4.5" -> "binary@sha256:55"
      [] pull_spec = "binary:dev-4.6" -> "binary@sha256:66"
      [] OTHER -> "None"

\* bundles of a request: the first n of b1, b2, b1, b2, ...
BundleList(n) == [i \in 1..n |-> IF i % 2 = 1 THEN "b1" ELSE "b2"]

CommonConfigs ==
    [_binary_image : {"None", "binary:override"},
     distribution_scope : {"None", "dev", "stage", "prod"},
     binary_image_config : {"empty", "full"}]

\* RequestConfigAddRm(...): the merge attributes do not exist on it.
AddRmConfigs ==
    {[variant |-> "RequestConfigAddRm",
      _binary_image |-> c._binary_image,
      distribution_scope |-> c.distribution_scope,
      binary_image_config |-> c.binary_image_config,
      overwrite_from_index_token |-> "None",
      from_index |-> f, add_arches |-> a, bundles |-> b,
      source_from_index |-> "None", target_index |-> "None",
      overwrite_target_index_token |-> "None"] :
        c \in CommonConfigs,
        f \in {"None", IndexRef},
        a \in {None({}), Some({"s390x"}), Some({"ppc64le", "s390x"})},
        b \in {None(<<>>)} \cup {Some(BundleList(n)) : n \in 0..MaxBundles}}

\* RequestConfigMerge(...): the add/remove attributes do not exist on it.
MergeConfigs ==
    {[variant |-> "RequestConfigMerge",
      _binary_image |-> c._binary_image,
      distribution_scope |-> c.distribution_scope,
      binary_image_config |-> c.binary_image_config,
      overwrite_from_index_token |-> "None",
      from_index |-> "None", add_arches |-> None({}), bundles |-> None(<<>>),
      source_from_index |-> src, target_index |-> tgt,
      overwrite_target_index_token |-> "None"] :
        c \in CommonConfigs,
        src \in {"None", SourceRef},
        tgt \in {"None", TargetRef}}

NoPlan == Return("None")

\* No request: the config slot of an idle worker.
NoConfig ==
    [variant |-> "None", _binary_image |-> "None", distribution_scope |-> "None",
     binary_image_config |-> "empty", overwrite_from_index_token |-> "None",
     from_index |-> "None", add_arches |-> None({}), bundles |-> None(<<>>),
     source_from_index |-> "None", target_index |-> "None",
     overwrite_target_index_token |-> "None"]

IdlePrepare ==
    [pc |-> "idle", cfg |-> NoConfig, bundles |-> <<>>, i |-> 1,
     index_info |-> <<>>, arches |-> {}, resolved_distribution_scope |-> "None",
     distribution_scope |-> "None", binary_image |-> "None",
     binary_image_resolved |-> "None", binary_image_arches |-> {},
     k |-> 1, bundle_mapping |-> <<>>, result |-> NoPlan,
     \* history, for the properties only: what was found on each index
     found |-> <<>>,
     \* ... and the steps whose lookups in the registry were made, in order
     calls |-> <<>>,
     \* ... and the package label read from each bundle, in order
     operators |-> <<>>]

PrepareIdle == prep = IdlePrepare

\* A variant of Abort that notes the failure and carries on.
Abort_CarryOn(p, failure) == [p EXCEPT !.result = failure]

\* Any failure aborts the whole preparation.
Abort(p, failure) == [p EXCEPT !.pc = "raised", !.result = failure]

\* prepare_request_for_build(request_id, build_request_config) is called:
\* bundles is the config's list, or [] when it has none.
PrepareCall(cfg) ==
    /\ prep.pc = "idle"
    /\ prep' = [IdlePrepare EXCEPT
                  !.pc = "index_info", !.cfg = cfg,
                  !.bundles = IF hasattr(cfg, "bundles") /\ cfg.bundles.some
                              THEN cfg.bundles.v ELSE <<>>]
    /\ UNCHANGED nonPrepareVars

\* What the inspection of an index found: nothing without an index, else its
\* two labels ("None": no such label).
NotInspected == [inspected |-> FALSE, version_label |-> "None", scope_label |-> "None"]
Inspected(version_label, scope_label) ==
    [inspected |-> TRUE, version_label |-> version_label, scope_label |-> scope_label]

\* After the i-th index: the next one, or on to the architectures.
NextIndex(p, info, seen) ==
    [p EXCEPT !.index_info = (IndexVersionMap[p.i].index :> info) @@ @,
              !.found = (IndexVersionMap[p.i].index :> seen) @@ @,
              !.i = @ + 1,
              !.pc = IF p.i = Len(IndexVersionMap) THEN "arches" ELSE "index_info"]

CurrentIndex == IndexOf(prep.cfg, IndexVersionMap[prep.i].index)

\* get_index_image_info with no from_index: the defaults, nothing inspected
IndexAbsent ==
    /\ prep.pc = "index_info" /\ Falsy(CurrentIndex)
    /\ prep' = NextIndex(prep, DefaultIndexInfo(IndexVersionMap[prep.i].version), NotInspected)
    /\ UNCHANGED nonPrepareVars

\* get_index_image_info of an index that is inspected with success
IndexResolved(arches, version_label, scope_label) ==
    /\ prep.pc = "index_info" /\ ~Falsy(CurrentIndex)
    /\ prep' = [NextIndex(prep, ResolvedIndexInfo(ResolvedSpec(CurrentIndex), arches,
                                                 version_label, scope_label),
                         Inspected(version_label, scope_label)) EXCEPT
                 !.calls = Append(@, "index_info")]
    /\ UNCHANGED nonPrepareVars

\* get_index_image_info of an index one of whose inspections fails for good
\* (IIBError), or whose inspection output lacks a key that is read (KeyError)
IndexFails(cls) ==
    /\ prep.pc = "index_info" /\ ~Falsy(CurrentIndex)
    /\ prep' = Abort([prep EXCEPT !.calls = Append(@, "index_info")],
                     Raise(cls, "index_info", <<>>))
    /\ UNCHANGED nonPrepareVars

\* arches = gather_index_image_arches(build_request_config, index_info)
GatherArches ==
    /\ prep.pc = "arches"
    /\ LET r == gather_index_image_arches(prep.cfg, prep.index_info)
       IN prep' = IF r.kind = "raise" THEN Abort(prep, r)
                  ELSE [prep EXCEPT !.pc = "distribution_scope", !.arches = r.val]
    /\ UNCHANGED nonPrepareVars

\* the resolved scope is picked and validated against the requested one
ValidateScope ==
    /\ prep.pc = "distribution_scope"
    /\ LET resolved == ResolvedScopeFor(prep.cfg, prep.index_info)
           r == validate_distribution_scope(resolved, prep.cfg.distribution_scope)
           p == [prep EXCEPT !.resolved_distribution_scope = resolved]
       IN prep' = IF r.kind = "raise" THEN Abort(p, r)
                  ELSE [p EXCEPT !.pc = "binary_image", !.distribution_scope = r.val]
    /\ UNCHANGED nonPrepareVars

\* binary_image = build_request_config.binary_image(index_info['from_index'], scope)
SelectBinaryImage ==
    /\ prep.pc = "binary_image"
    /\ LET r == binary_image(prep.cfg, prep.index_info["from_index"], prep.distribution_scope)
       IN prep' = IF r.kind = "raise" THEN Abort(prep, r)
                  ELSE [prep EXCEPT !.pc = "resolve_binary_image", !.binary_image = r.val]
    /\ UNCHANGED nonPrepareVars

\* get_resolved_image of the binary image succeeds and get_image_arches reads
\* its manifest and, for a v2 manifest, its config
BinaryImageResolved(skopeo_raw, skopeo_out) ==
    /\ prep.pc = "resolve_binary_image"
    /\ LET r == get_image_arches(skopeo_raw, skopeo_out)
           p == [prep EXCEPT !.calls = Append(@, "resolve_binary_image")]
       IN prep' = IF r.kind = "raise" THEN Abort(p, r)
                  ELSE [p EXCEPT !.pc = "check_arches",
                                 !.binary_image_resolved = ResolvedSpec(prep.binary_image),
                                 !.binary_image_arches = r.val]
    /\ UNCHANGED nonPrepareVars

\* one of the inspections of the binary image fails for good (IIBError), or
\* get_resolved_image finds no 'Digest' in the output for a schema 1 manifest
BinaryImageFails(cls) ==
    /\ prep.pc = "resolve_binary_image"
    /\ prep' = Abort([prep EXCEPT !.calls = Append(@, "resolve_binary_image")],
                     Raise(cls, "resolve_binary_image", <<>>))
    /\ UNCHANGED nonPrepareVars

\* the subset check
CheckArches ==
    /\ prep.pc = "check_arches"
    /\ LET r == check_binary_image_arches(prep.arches, prep.binary_image_arches)
       IN prep' = IF r.kind = "raise" THEN Abort(prep, r)
                  ELSE [prep EXCEPT !.pc = IF prep.bundles = <<>> THEN "return" ELSE "bundles"]
    /\ UNCHANGED nonPrepareVars

\* A variant of AddToMapping that keeps only the last bundle of an operator.
AddToMapping_Replace(bundle_mapping, operator, bundle) ==
    (operator :> <<bundle>>) @@ bundle_mapping

\* bundle_mapping.setdefault(operator, []).append(bundle)
AddToMapping(bundle_mapping, operator, bundle) ==
    IF operator \in DOMAIN bundle_mapping
    THEN [bundle_mapping EXCEPT ![operator] = Append(@, bundle)]
    ELSE (operator :> <<bundle>>) @@ bundle_mapping

\* One turn of "for bundle in bundles": the package label is read ("None": the
\* bundle has none) and a bundle with a label is added to the mapping.
MapBundle(operator) ==
    /\ prep.pc = "bundles"
    /\ LET bundle == prep.bundles[prep.k]
       IN prep' = [prep EXCEPT
                     !.bundle_mapping = IF Falsy(operator) THEN @
                                        ELSE AddToMapping(@, operator, bundle),
                     !.k = @ + 1,
                     !.calls = Append(@, "bundles"),
                     !.operators = Append(@, operator),
                     !.pc = IF prep.k = Len(prep.bundles) THEN "return" ELSE "bundles"]
    /\ UNCHANGED nonPrepareVars

\* reading a bundle's labels fails for good
MapBundleFails ==
    /\ prep.pc = "bundles"
    /\ prep' = Abort([prep EXCEPT !.calls = Append(@, "bundles")],
                     Raise("IIBError", "bundles", <<>>))
    /\ UNCHANGED nonPrepareVars

\* The dictionary prepare_request_for_build returns.
Plan(p) ==
    [arches |-> p.arches,
     binary_image |-> p.binary_image,
     binary_image_resolved |-> p.binary_image_resolved,
     bundle_mapping |-> p.bundle_mapping,
     from_index_resolved |-> p.index_info["from_index"].resolved_from_index,
     ocp_version |-> p.index_info["from_index"].ocp_version,
     distribution_scope |-> p.distribution_scope,
     source_from_index_resolved |-> p.index_info["source_from_index"].resolved_from_index,
     source_ocp_version |-> p.index_info["source_from_index"].ocp_version,
     target_index_resolved |-> p.index_info["target_index"].resolved_from_index,
     target_ocp_version |-> p.index_info["target_index"].ocp_version]

ReturnPlan ==
    /\ prep.pc = "return"
    /\ prep' = [prep EXCEPT !.pc = "returned", !.result = Return(Plan(prep))]
    /\ UNCHANGED nonPrepareVars

\* The caller has the plan or the error.
PrepareDone ==
    /\ prep.pc \in {"returned", "raised"}
    /\ prep' = IdlePrepare
    /\ UNCHANGED nonPrepareVars

(***************************************************************************)
(* get_index_image_info(overwrite_from_index_token, from_index,            *)
(*                      default_ocp_version)                               *)
(***************************************************************************)
\* A variant of SkipsResolution that takes only None for an absent index.
SkipsResolution_NoneOnly(from_index) == from_index = "None"

\* "if not from_index: return result"
SkipsResolution(from_index) == Falsy(from_index)

\* The lookups in the body of the with statement, in the order they are made.
BodyCalls == <<"get_resolved_image", "get_image_arches", "get_image_label", "get_image_label">>

\* How the body ends: every lookup succeeds (the arches and the two labels
\* found; "None": no such label), or the n-th one raises.
BodyOutcomes ==
    {[ok |-> TRUE, n |-> Len(BodyCalls), exc |-> "none",
      arches |-> a, version_label |-> v, scope_label |-> sc] :
        a \in {{"amd64"}, {"amd64", "s390x"}},
        v \in {"None", "v4.6"},
        sc \in {"None", "stage"}}
    \cup
    {[ok |-> FALSE, n |-> n, exc |-> "IIBError",
      arches |-> {}, version_label |-> "None", scope_label |-> "None"] :
        n \in 1..Len(BodyCalls)}

IdleIndexInfo ==
    [pc |-> "idle", token |-> "None", from_index |-> "None", default_ocp_version |-> "v4.5",
     result |-> DefaultIndexInfo("v4.5"), exc |-> "none",
     \* history, for the properties only
     inspections |-> <<>>, scopes |-> 0, path0 |-> Absent]

IndexInfoIdle == idx = IdleIndexInfo

\* The call, up to the with statement: the result starts from the defaults
\* and is returned as it is when there is no from_index.
IndexInfoCall(token, from_index, default_ocp_version) ==
    /\ idx.pc = "idle" /\ stack = <<>>
    /\ idx' = [IdleIndexInfo EXCEPT
                 !.pc = IF SkipsResolution(from_index) THEN "returned" ELSE "enter",
                 !.token = token, !.from_index = from_index,
                 !.default_ocp_version = default_ocp_version,
                 !.result = DefaultIndexInfo(default_ocp_version),
                 !.path0 = dockerConfig]
    /\ UNCHANGED <<credVars, nonIndexInfoVars>>

\* with set_registry_token(overwrite_from_index_token, from_index):
IndexInfoEnter ==
    /\ idx.pc = "enter"
    /\ EnterTokenScope(idx.token, idx.from_index)
    /\ idx' = [idx EXCEPT !.pc = "scope", !.scopes = @ + 1]
    /\ UNCHANGED nonIndexInfoVars

\* The body of the with statement, with outcome o.
IndexInfoBody(o) ==
    /\ idx.pc = "scope"
    /\ EndBody(o.exc)
    /\ idx' = [idx EXCEPT
                 !.inspections = SubSeq(BodyCalls, 1, o.n),
                 !.result = IF o.ok
                            THEN ResolvedIndexInfo(ResolvedSpec(idx.from_index), o.arches,
                                                   o.version_label, o.scope_label)
                            ELSE @]
    /\ UNCHANGED nonIndexInfoVars

\* A variant of IndexInfoLeave that returns out of the with statement with
\* the scope still open.
IndexInfoLeave_KeepScope ==
    /\ idx.pc = "scope" /\ Top.pc = "exited"
    /\ idx' = [idx EXCEPT !.pc = IF Top.exc = "none" THEN "returned" ELSE "raised",
                          !.exc = Top.exc]
    /\ UNCHANGED <<credVars, nonIndexInfoVars>>

\* The with statement is left: "return result", or the exception goes on.
IndexInfoLeave ==
    /\ idx.pc = "scope"
    /\ LeaveScope
    /\ idx' = [idx EXCEPT !.pc = IF Top.exc = "none" THEN "returned" ELSE "raised",
                          !.exc = Top.exc]
    /\ UNCHANGED nonIndexInfoVars

\* The caller has the info or the error.
IndexInfoDone ==
    /\ idx.pc \in {"returned", "raised"}
    /\ idx' = IdleIndexInfo
    /\ UNCHANGED <<credVars, nonIndexInfoVars>>

(***************************************************************************)
(* get_all_index_images_info: prepare_request_for_build calling            *)
(* get_index_image_info, index by index                                    *)
(***************************************************************************)
\* The token passed on: overwrite_from_index_token if the config has the
\* attribute, else overwrite_target_index_token.
OverwriteToken(cfg) ==
    IF hasattr(cfg, "overwrite_from_index_token")
    THEN cfg.overwrite_from_index_token
    ELSE cfg.overwrite_target_index_token

\* infos[index] = get_index_image_info(token, from_index=..., default_ocp_version=version)
\* is called for the index whose turn it is.
AllIndexesCall ==
    /\ prep.pc = "index_info"
    /\ IndexInfoCall(OverwriteToken(prep.cfg), CurrentIndex, IndexVersionMap[prep.i].version)

\* get_index_image_info has returned: its result is kept and the loop goes on.
AllIndexesNext ==
    /\ prep.pc = "index_info" /\ idx.pc = "returned"
    /\ prep' = IF SkipsResolution(idx.from_index)
               THEN NextIndex(prep, idx.result, NotInspected)
               ELSE [NextIndex(prep, idx.result,
                               \* the labels as the result shows them
                               Inspected(idx.result.ocp_version,
                                         idx.result.resolved_distribution_scope)) EXCEPT
                       !.calls = Append(@, "index_info")]
    /\ idx' = IdleIndexInfo
    /\ UNCHANGED <<dockerConfig, template, stack, retry, cache, insp, rb, call, procs>>

\* get_index_image_info has raised: the preparation is over.
AllIndexesRaise ==
    /\ prep.pc = "index_info" /\ idx.pc = "raised"
    /\ prep' = Abort([prep EXCEPT !.calls = Append(@, "index_info")],
                     Raise(idx.exc, "index_info", <<>>))
    /\ idx' = IdleIndexInfo
    /\ UNCHANGED <<dockerConfig, template, stack, retry, cache, insp, rb, call, procs>>

(***************************************************************************)
(* get_resolved_bundles(bundles)                                           *)
(***************************************************************************)
\* A pull spec is the sequence of the pieces of its text, the separators '@'
\* and ':' being pieces of their own.
TagSpec == <<"r1/ns/b", ":", "v1">>
DigestSpec == <<"r1/ns/b", "@", "sha256", ":", "aa">>
PortSpec == <<"r1", ":", "5000/ns/b">>
BundleSpecs == {TagSpec, DigestSpec, PortSpec}

Contains(text, sep) == \E j \in DOMAIN text : text[j] = sep

\* text.split(sep, 1)[0]
split_first(text, sep) ==
    IF ~Contains(text, sep) THEN text
    ELSE LET j == CHOOSE n \in DOMAIN text :
                     text[n] = sep /\ \A i \in 1..(n - 1) : text[i] # sep
         IN SubSeq(text, 1, j - 1)

\* text.rsplit(sep, 1)[0]
rsplit_first(text, sep) ==
    IF ~Contains(text, sep) THEN text
    ELSE LET j == CHOOSE n \in DOMAIN text :
                     text[n] = sep /\ \A i \in (n + 1)..Len(text) : text[i] # sep
         IN SubSeq(text, 1, j - 1)

\* A variant of get_container_image_name that always cuts at the last ':'.
get_container_image_name_ColonOnly(pull_spec) == rsplit_first(pull_spec, ":")

\* _get_container_image_name
get_container_image_name(pull_spec) ==
    IF Contains(pull_spec, "@") THEN split_first(pull_spec, "@")
    ELSE rsplit_first(pull_spec, ":")

\* 'sha256:<hex>'
Digest(hex) == <<"sha256", ":", hex>>

\* f'{name}@{digest}'
Pinned(name, digest) == name \o <<"@">> \o digest

\* get_resolved_image of a pull spec whose manifest hashes (or, for schema 1,
\* whose 'Digest' is) digest
get_resolved_image(pull_spec, digest) == Pinned(get_container_image_name(pull_spec), digest)

\* What skopeo_inspect(.., '--raw', require_media_type=True) returns for a
\* bundle: its mediaType, its schemaVersion and, if it has the key, the
\* digests of its 'manifests'.
BundleRaw(mediaType, schemaVersion, manifests) ==
    [mediaType |-> mediaType, schemaVersion |-> schemaVersion, manifests |-> manifests]

\* No output: skopeo_inspect raised.
NoRaw == BundleRaw("None", 0, None(<<>>))

IsManifestList(skopeo_raw) == skopeo_raw.mediaType = ManifestList

\* A variant of IsV2S2 that does not look at the schema version.
IsV2S2_AnySchema(skopeo_raw) == skopeo_raw.mediaType = ManifestV2

IsV2S2(skopeo_raw) == skopeo_raw.mediaType = ManifestV2 /\ skopeo_raw.schemaVersion = 2

\* One turn of the loop of get_resolved_bundles on the raw manifest of the
\* bundle; resolved_image is what get_resolved_image(bundle_pull_spec) does
\* if it is called.
resolve_bundle(bundle_pull_spec, skopeo_raw, resolved_image) ==
    IF IsManifestList(skopeo_raw)
    THEN IF ~skopeo_raw.manifests.some THEN Raise("KeyError", "manifests", <<>>)
         ELSE IF skopeo_raw.manifests.v = <<>> THEN Raise("IndexError", "manifests", <<>>)
         ELSE Return(Pinned(get_container_image_name(bundle_pull_spec),
                            skopeo_raw.manifests.v[1]))
    ELSE IF IsV2S2(skopeo_raw) THEN resolved_image
    ELSE Raise("IIBError", "unsupported",
               <<skopeo_raw.mediaType, skopeo_raw.schemaVersion>>)

IdleBundles ==
    [pc |-> "idle", bundles |-> <<>>, k |-> 1, resolved_bundles |-> {},
     result |-> Return("None"),
     \* history, for the properties only: the raw manifest of each bundle
     raws |-> <<>>]

BundlesIdle == rb = IdleBundles

\* get_resolved_bundles(bundles) is called: resolved_bundles = set()
ResolveCall(bundles) ==
    /\ rb.pc = "idle"
    /\ rb' = [IdleBundles EXCEPT !.pc = "loop", !.bundles = bundles]
    /\ UNCHANGED nonBundlesVars

\* skopeo_inspect(f'docker://{bundle_pull_spec}', '--raw', require_media_type=True)
BundleInspectKey(bundle_pull_spec) ==
    [ref |-> <<"docker://">> \o bundle_pull_spec, flag |-> "--raw", return_json |-> TRUE,
     require_media_type |-> TRUE]

\* One turn of the loop: the registry serves skopeo_raw, which skopeo_inspect
\* returns unless it has no mediaType; image is how the call of
\* get_resolved_image ends, if it is made.
ResolveBundle(skopeo_raw, image) ==
    /\ rb.pc = "loop" /\ rb.k <= Len(rb.bundles)
    /\ LET bundle_pull_spec == rb.bundles[rb.k]
           resolved_image == IF image.ok
                             THEN Return(get_resolved_image(bundle_pull_spec, image.digest))
                             ELSE Raise("IIBError", "get_resolved_image", <<>>)
           r == IF MediaTypeNotFound(BundleInspectKey(bundle_pull_spec), skopeo_raw)
                THEN Raise("IIBError", "skopeo_inspect", <<>>)
                ELSE resolve_bundle(bundle_pull_spec, skopeo_raw, resolved_image)
           seen == [rb EXCEPT !.raws = Append(@, skopeo_raw)]
       IN rb' = IF r.kind = "raise" THEN [seen EXCEPT !.pc = "raised", !.result = r]
                ELSE [seen EXCEPT !.k = @ + 1,
                                  !.resolved_bundles = @ \cup {r.val}]
    /\ UNCHANGED nonBundlesVars

\* skopeo_inspect of the bundle raises for good: the command fails.
ResolveInspectFails ==
    /\ rb.pc = "loop" /\ rb.k <= Len(rb.bundles)
    /\ rb' = [rb EXCEPT !.pc = "raised", !.raws = Append(@, NoRaw),
                        !.result = Raise("IIBError", "skopeo_inspect", <<>>)]
    /\ UNCHANGED nonBundlesVars

\* return list(resolved_bundles): the elements of the set, in some order
ResolveReturn(order) ==
    /\ rb.pc = "loop" /\ rb.k > Len(rb.bundles)
    /\ Len(order) = Cardinality(rb.resolved_bundles)
    /\ {order[j] : j \in DOMAIN order} = rb.resolved_bundles
    /\ rb' = [rb EXCEPT !.pc = "returned", !.result = Return(order)]
    /\ UNCHANGED nonBundlesVars

\* The caller has the list or the error.
ResolveDone ==
    /\ rb.pc \in {"returned", "raised"}
    /\ call.fn # "get_bundles_from_deprecation_list"
    /\ rb' = IdleBundles
    /\ UNCHANGED nonBundlesVars

(***************************************************************************)
(* The smaller functions, one call at a time                               *)
(***************************************************************************)
NoCall == [fn |-> "none", pc |-> "idle"]
CallIdle == call = NoCall

\* The workers that share the credential path, and one that is in no scope.
Workers == {"w1", "w2"}
IdleWorker ==
    [pc |-> "idle", registry_auths |-> NoAuths, docker_config |-> EmptyConfig,
     exc |-> "none",
     \* history, for the properties only: the other worker has touched the path
     \* since this one wrote or removed it; a restoration of this one has failed
     intruded |-> FALSE, reset_failed |-> FALSE]

\* No worker is in a credential scope of its own.
ProcsIdle == procs = [w \in Workers |-> IdleWorker]

\* The caller has the result or the error.
CallDone ==
    /\ call.pc \in {"returned", "raised"}
    /\ call' = NoCall
    /\ UNCHANGED nonCallVars

(***************************************************************************)
(* get_bundles_from_deprecation_list(bundles, deprecation_list)            *)
(***************************************************************************)
\* A variant of IsDeprecated that compares image names, not pull specs.
IsDeprecated_ByName(bundle, resolved_deprecation_list) ==
    \E j \in DOMAIN resolved_deprecation_list :
        get_container_image_name(resolved_deprecation_list[j])
            = get_container_image_name(bundle)

\* "bundle in resolved_deprecation_list": one of its strings is the bundle's
IsDeprecated(bundle, resolved_deprecation_list) ==
    \E j \in DOMAIN resolved_deprecation_list : resolved_deprecation_list[j] = bundle

\* The for loop: deprecate_bundles after the first n bundles.
RECURSIVE deprecate_bundles(_, _, _)
deprecate_bundles(bundles, resolved_deprecation_list, n) ==
    IF n = 0 THEN <<>>
    ELSE LET before == deprecate_bundles(bundles, resolved_deprecation_list, n - 1)
         IN IF IsDeprecated(bundles[n], resolved_deprecation_list)
            THEN Append(before, bundles[n])
            ELSE before

\* get_bundles_from_deprecation_list is called and calls
\* get_resolved_bundles(deprecation_list).
DeprecationCall(bundles, deprecation_list) ==
    /\ call.pc = "idle" /\ rb.pc = "idle"
    /\ call' = [fn |-> "get_bundles_from_deprecation_list", pc |-> "resolving",
                bundles |-> bundles, deprecation_list |-> deprecation_list,
                resolved_deprecation_list |-> <<>>, result |-> Return("None")]
    /\ rb' = [IdleBundles EXCEPT !.pc = "loop", !.bundles = deprecation_list]
    /\ UNCHANGED <<dockerConfig, template, stack, retry, cache, insp, prep, idx, procs>>

\* get_resolved_bundles has returned: the bundles are filtered and returned.
DeprecationFilter ==
    /\ call.fn = "get_bundles_from_deprecation_list" /\ call.pc = "resolving"
    /\ rb.pc = "returned"
    /\ call' = [call EXCEPT !.pc = "returned",
                            !.resolved_deprecation_list = rb.result.val,
                            !.result = Return(deprecate_bundles(call.bundles, rb.result.val,
                                                                Len(call.bundles)))]
    /\ rb' = IdleBundles
    /\ UNCHANGED <<dockerConfig, template, stack, retry, cache, insp, prep, idx, procs>>

\* get_resolved_bundles has raised: so does get_bundles_from_deprecation_list.
DeprecationFails ==
    /\ call.fn = "get_bundles_from_deprecation_list" /\ call.pc = "resolving"
    /\ rb.pc = "raised"
    /\ call' = [call EXCEPT !.pc = "raised", !.result = rb.result]
    /\ rb' = IdleBundles
    /\ UNCHANGED <<dockerConfig, template, stack, retry, cache, insp, prep, idx, procs>>

(***************************************************************************)
(* get_resolved_image(pull_spec), inspection by inspection                 *)
(***************************************************************************)
\* hashlib.sha256(skopeo_output.encode('utf-8')).hexdigest(): another output,
\* another digest.
sha256_hexdigest(text) ==
    CASE text = "B1" -> "9f1" [] text = "B2" -> "c42" [] OTHER -> "e07"

\* The output of skopeo inspect --raw: its text and the schemaVersion that
\* json.loads finds in it (0: no such key).
RawOutput(text, schemaVersion) == [schemaVersion |-> schemaVersion, text |-> text]

\* A variant of UsesHash that hashes whatever the schema version.
UsesHash_Always(skopeo_output) == TRUE

\* "if json.loads(skopeo_output).get('schemaVersion') == 2"
UsesHash(skopeo_output) == skopeo_output.schemaVersion = 2

\* digest = f'sha256:{raw_digest}'
HashedDigest(skopeo_output) == Digest(sha256_hexdigest(skopeo_output.text))

\* get_resolved_image(pull_spec) is called.
ResolvedImageCall(pull_spec) ==
    /\ call.pc = "idle"
    /\ call' = [fn |-> "get_resolved_image", pc |-> "raw", pull_spec |-> pull_spec,
                skopeo_output |-> RawOutput("", 0), digest_field |-> "None",
                result |-> Return("None"),
                \* history, for the properties only: the flags of the inspections made
                inspections |-> <<>>]
    /\ UNCHANGED nonCallVars

\* skopeo_inspect(.., '--raw', return_json=False) returns skopeo_output: it
\* is hashed, or a second inspection is needed.
ResolvedImageRaw(skopeo_output) ==
    /\ call.fn = "get_resolved_image" /\ call.pc = "raw"
    /\ LET c == [call EXCEPT !.skopeo_output = skopeo_output,
                             !.inspections = Append(@, "--raw")]
       IN call' = IF UsesHash(skopeo_output)
                  THEN [c EXCEPT !.pc = "returned",
                                 !.result = Return(get_resolved_image(
                                                call.pull_spec, HashedDigest(skopeo_output)))]
                  ELSE [c EXCEPT !.pc = "inspect"]
    /\ UNCHANGED nonCallVars

\* digest = skopeo_inspect(f'docker://{pull_spec}')['Digest'] ("None": the
\* output has no such key)
ResolvedImageInspect(digest_field) ==
    /\ call.fn = "get_resolved_image" /\ call.pc = "inspect"
    /\ LET c == [call EXCEPT !.digest_field = digest_field,
                             !.inspections = Append(@, "")]
       IN call' = IF digest_field = "None"
                  THEN [c EXCEPT !.pc = "raised", !.result = Raise("KeyError", "Digest", <<>>)]
                  ELSE [c EXCEPT !.pc = "returned",
                                 !.result = Return(get_resolved_image(call.pull_spec,
                                                                      digest_field))]
    /\ UNCHANGED nonCallVars

\* The inspection that is due raises for good.
ResolvedImageInspectFails ==
    /\ call.fn = "get_resolved_image" /\ call.pc \in {"raw", "inspect"}
    /\ call' = [call EXCEPT !.pc = "raised",
                            !.inspections = Append(@, IF call.pc = "raw" THEN "--raw" ELSE ""),
                            !.result = Raise("IIBError", "skopeo_inspect", <<>>)]
    /\ UNCHANGED nonCallVars

(***************************************************************************)
(* get_image_arches(pull_spec), inspection by inspection                   *)
(***************************************************************************)
\* A variant of NeedsConfig that inspects the config of all but the lists.
NeedsConfig_UnlessList(skopeo_raw) == skopeo_raw.mediaType # ManifestList

\* "elif skopeo_raw.get('mediaType') == '...manifest.v2+json'", reached when
\* the manifest is not a list
NeedsConfig(skopeo_raw) == skopeo_raw.mediaType = ManifestV2

\* The text of the IIBError of the else branch.
NeitherMessage == <<"neither a v2 manifest list nor a v2 manifest">>

\* get_image_arches(pull_spec) is called.
ImageArchesCall(pull_spec) ==
    /\ call.pc = "idle"
    /\ call' = [fn |-> "get_image_arches", pc |-> "raw", pull_spec |-> pull_spec,
                skopeo_raw |-> RawManifest("None", None(<<>>)),
                skopeo_out |-> ImageConfig("None"),
                result |-> Return("None"),
                \* history, for the properties only: the flags of the inspections
                \* made, and whether one of them raised
                inspections |-> <<>>, inspect_raised |-> FALSE]
    /\ UNCHANGED nonCallVars

\* skopeo_inspect(.., '--raw') returns skopeo_raw: a list is read, a v2
\* manifest needs the config, anything else is refused.
ImageArchesRaw(skopeo_raw) ==
    /\ call.fn = "get_image_arches" /\ call.pc = "raw"
    /\ LET c == [call EXCEPT !.skopeo_raw = skopeo_raw,
                             !.inspections = Append(@, "--raw")]
           r == get_image_arches(skopeo_raw, call.skopeo_out)
       IN call' = IF skopeo_raw.mediaType # ManifestList /\ NeedsConfig(skopeo_raw)
                  THEN [c EXCEPT !.pc = "config"]
                  ELSE IF r.kind = "return"
                  THEN [c EXCEPT !.pc = "returned", !.result = r]
                  ELSE [c EXCEPT !.pc = "raised",
                                 !.result = IF r.cls = "IIBError"
                                            THEN [r EXCEPT !.detail = NeitherMessage]
                                            ELSE r]
    /\ UNCHANGED nonCallVars

\* skopeo_inspect(.., '--config') returns skopeo_out.
ImageArchesConfig(skopeo_out) ==
    /\ call.fn = "get_image_arches" /\ call.pc = "config"
    /\ LET c == [call EXCEPT !.skopeo_out = skopeo_out,
                             !.inspections = Append(@, "--config")]
           r == get_image_arches(call.skopeo_raw, skopeo_out)
       IN call' = IF r.kind = "return"
                  THEN [c EXCEPT !.pc = "returned", !.result = r]
                  ELSE [c EXCEPT !.pc = "raised",
                                 !.result = IF r.cls = "IIBError"
                                            THEN [r EXCEPT !.detail = NeitherMessage]
                                            ELSE r]
    /\ UNCHANGED nonCallVars

\* The inspection that is due raises for good.
ImageArchesInspectFails ==
    /\ call.fn = "get_image_arches" /\ call.pc \in {"raw", "config"}
    /\ call' = [call EXCEPT !.pc = "raised", !.inspect_raised = TRUE,
                            !.inspections = Append(@, IF call.pc = "raw" THEN "--raw"
                                                      ELSE "--config"),
                            !.result = Raise("IIBError", "skopeo_inspect", <<>>)]
    /\ UNCHANGED nonCallVars

(***************************************************************************)
(* RequestConfig.__eq__(self, other)                                       *)
(***************************************************************************)
\* getattr(cfg, x) for a slot x: __init__ has set every slot, to None unless
\* a keyword argument gave it a value.
getattr(cfg, x) == IF x \in DOMAIN cfg THEN cfg[x] ELSE "None"

\* [getattr(cfg, x) for x in cfg.__slots__]
SlotValues(cfg) == [x \in Slots(cfg.variant) |-> getattr(cfg, x)]

\* __eq__: both lists of the comparison are read from self.
RequestConfig_eq(self, other) ==
    IF self.variant = other.variant /\ SlotValues(self) = SlotValues(self)
    THEN TRUE
    ELSE FALSE

\* self == other is evaluated.
EqCall(self, other) ==
    /\ call.pc = "idle"
    /\ call' = [fn |-> "__eq__", pc |-> "returned", self |-> self, other |-> other,
                result |-> Return(RequestConfig_eq(self, other))]
    /\ UNCHANGED nonCallVars

(***************************************************************************)
(* set_registry_auths in two workers on one credential path                *)
(***************************************************************************)
\* open(docker_config_path, 'w') and json.dump(docker_config, f): a symlink
\* is followed, so the text lands in the template; anything else becomes a
\* plain file with that text.
open_w(path, tmpl, docker_config) ==
    IF path.kind = "symlink"
    THEN [path |-> path, tmpl |-> [kind |-> "json", content |-> docker_config]]
    ELSE [path |-> PlainFile(docker_config), tmpl |-> tmpl]

\* A variant of SymlinkFails in which os.symlink never succeeds.
SymlinkFails_Always(path) == TRUE

\* os.symlink(template, docker_config_path) raises FileExistsError when the
\* path is there.
SymlinkFails(path) == path.kind # "absent"

\* The other workers see the path touched under their bodies and resets.
Intrude(w, next) ==
    [v \in Workers |-> IF v = w THEN next ELSE [procs[v] EXCEPT !.intruded = TRUE]]

\* with set_registry_auths(registry_auths): a worker enters a scope that
\* overrides (a scope that passes through touches no file).
WorkerEnter(w, registry_auths) ==
    /\ procs[w].pc = "idle"
    /\ ~AuthsPassThrough(registry_auths)
    /\ procs' = [procs EXCEPT ![w] = [@ EXCEPT !.pc = "remove",
                                               !.registry_auths = registry_auths,
                                               !.docker_config = EmptyConfig,
                                               !.exc = "none", !.intruded = FALSE]]
    /\ UNCHANGED <<dockerConfig, template, stack, retry, cache, insp, prep, idx, rb, call>>

\* os.remove(docker_config_path) at the head of the try block
WorkerRemove(w) ==
    /\ procs[w].pc = "remove"
    /\ dockerConfig' = os_remove(dockerConfig)
    /\ procs' = Intrude(w, [procs[w] EXCEPT !.pc = "read"])
    /\ UNCHANGED <<template, stack, retry, cache, insp, prep, idx, rb, call>>

\* json.load of the template if it exists, else {}
WorkerRead(w) ==
    /\ procs[w].pc = "read"
    /\ procs' = [procs EXCEPT ![w] =
                   IF template.kind = "bad"
                   THEN [@ EXCEPT !.pc = "reset_remove", !.exc = "JSONDecodeError"]
                   ELSE [@ EXCEPT !.pc = "write",
                                  !.docker_config = IF TemplateExists(template)
                                                    THEN template.content
                                                    ELSE EmptyConfig]]
    /\ UNCHANGED <<dockerConfig, template, stack, retry, cache, insp, prep, idx, rb, call>>

\* the merge, then open(docker_config_path, 'w') and json.dump
WorkerWrite(w) ==
    /\ procs[w].pc = "write"
    /\ LET merged == MergeAuths(procs[w].docker_config, procs[w].registry_auths)
           written == open_w(dockerConfig, template, merged)
       IN /\ dockerConfig' = written.path
          /\ template' = written.tmpl
          /\ procs' = Intrude(w, [procs[w] EXCEPT !.pc = "body", !.docker_config = merged,
                                                  !.intruded = FALSE])
    /\ UNCHANGED <<stack, retry, cache, insp, prep, idx, rb, call>>

\* The body of the with statement ends, with e in flight.
WorkerBodyEnds(w, e) ==
    /\ procs[w].pc = "body"
    /\ procs' = [procs EXCEPT ![w] = [@ EXCEPT !.pc = "reset_remove", !.exc = e]]
    /\ UNCHANGED <<dockerConfig, template, stack, retry, cache, insp, prep, idx, rb, call>>

\* finally: reset_docker_config(), os.remove
WorkerResetRemove(w) ==
    /\ procs[w].pc = "reset_remove"
    /\ dockerConfig' = os_remove(dockerConfig)
    /\ procs' = Intrude(w, [procs[w] EXCEPT !.pc = "reset_symlink", !.intruded = FALSE])
    /\ UNCHANGED <<template, stack, retry, cache, insp, prep, idx, rb, call>>

\* finally: reset_docker_config(), os.symlink if the template exists
WorkerResetSymlink(w) ==
    /\ procs[w].pc = "reset_symlink"
    /\ IF TemplateExists(template) /\ SymlinkFails(dockerConfig)
       THEN /\ procs' = [procs EXCEPT ![w] = [@ EXCEPT !.pc = "exited",
                                                       !.exc = "FileExistsError",
                                                       !.reset_failed = TRUE]]
            /\ UNCHANGED dockerConfig
       ELSE /\ dockerConfig' = reset_symlink(dockerConfig, template)
            /\ procs' = IF TemplateExists(template)
                        THEN Intrude(w, [procs[w] EXCEPT !.pc = "exited"])
                        ELSE [procs EXCEPT ![w] = [@ EXCEPT !.pc = "exited"]]
    /\ UNCHANGED <<template, stack, retry, cache, insp, prep, idx, rb, call>>

\* The with statement is left.
WorkerLeave(w) ==
    /\ procs[w].pc = "exited"
    /\ procs' = [procs EXCEPT ![w] = [IdleWorker EXCEPT !.reset_failed = @ \/ procs[w].reset_failed]]
    /\ UNCHANGED <<dockerConfig, template, stack, retry, cache, insp, prep, idx, rb, call>>

(***************************************************************************)
(* reset_docker_config(), called on its own and again                      *)
(***************************************************************************)
\* reset_docker_config() is called, for the first time or right after a call
\* of it has returned.
ResetCall ==
    /\ \/ call.pc = "idle"
       \/ call.fn = "reset_docker_config" /\ call.pc = "returned" /\ call.calls < MaxResets
    /\ call' = [fn |-> "reset_docker_config", pc |-> "remove",
                result |-> Return("None"),
                \* history, for the properties only: the calls made in a row, the
                \* path the first call started from and the path it left
                calls |-> IF call.pc = "idle" THEN 1 ELSE call.calls + 1,
                started |-> IF call.pc = "idle" THEN dockerConfig ELSE call.started,
                after_first |-> IF call.pc = "idle" THEN dockerConfig ELSE call.after_first]
    /\ UNCHANGED nonCallVars

\* try: os.remove(docker_config_path) except FileNotFoundError: pass
ResetCallRemove ==
    /\ call.fn = "reset_docker_config" /\ call.pc = "remove"
    /\ dockerConfig' = os_remove(dockerConfig)
    /\ call' = [call EXCEPT !.pc = "symlink"]
    /\ UNCHANGED <<template, stack, retry, cache, insp, prep, idx, rb, procs>>

\* if os.path.exists(template): os.symlink(template, docker_config_path)
ResetCallSymlink ==
    /\ call.fn = "reset_docker_config" /\ call.pc = "symlink"
    /\ IF TemplateExists(template) /\ SymlinkFails(dockerConfig)
       THEN /\ call' = [call EXCEPT !.pc = "raised",
                                    !.result = Raise("FileExistsError", "os.symlink", <<>>)]
            /\ UNCHANGED dockerConfig
       ELSE /\ dockerConfig' = reset_symlink(dockerConfig, template)
            /\ call' = [call EXCEPT !.pc = "returned",
                                    !.after_first = IF call.calls = 1 THEN dockerConfig'
                                                    ELSE @]
    /\ UNCHANGED <<template, stack, retry, cache, insp, prep, idx, rb, procs>>

(***************************************************************************)
(* run_cmd(cmd, params, exc_msg)                                           *)
(***************************************************************************)
\* Texts are sequences of pieces, a '.' and the prefix 'Error: ' being pieces
\* of their own; stderr is the sequence of its lines.
DefaultMessage == <<"An unexpected error occurred">>

\* exc_msg = exc_msg or 'An unexpected error occurred'
ExcMsgOrDefault(exc_msg) ==
    IF ~exc_msg.some \/ exc_msg.v = <<>> THEN DefaultMessage ELSE exc_msg.v

\* text.rstrip('.'): every '.' at the end goes
RECURSIVE rstrip_dot(_)
rstrip_dot(text) ==
    IF text # <<>> /\ text[Len(text)] = "."
    THEN rstrip_dot(SubSeq(text, 1, Len(text) - 1))
    ELSE text

\* re.match(r'^(?:Error: )(.+)$', msg): the line starts with 'Error: ' and
\* something follows
re_match(msg) == Len(msg) >= 2 /\ msg[1] = "Error: "

\* match.groups()[0]: the line after 'Error: '
match_group(msg) == Tail(msg)

\* A variant of scan_stderr that reads stderr from the top.
RECURSIVE scan_stderr_Forward(_, _)
scan_stderr_Forward(lines, n) ==
    IF lines = <<>> THEN None(<<>>)
    ELSE IF re_match(Head(lines)) THEN Some(match_group(Head(lines)))
    ELSE scan_stderr_Forward(Tail(lines), n)

\* "for msg in reversed(response.stderr.splitlines())": the first match on
\* the way up from line n, if there is one
RECURSIVE scan_stderr(_, _)
scan_stderr(lines, n) ==
    IF n = 0 THEN None(<<>>)
    ELSE IF re_match(lines[n]) THEN Some(match_group(lines[n]))
    ELSE scan_stderr(lines, n - 1)

\* run_cmd is called and starts the command.
RunCmdCall(cmd0, exc_msg) ==
    /\ call.pc = "idle"
    /\ call' = [fn |-> "run_cmd", pc |-> "running", cmd0 |-> cmd0,
                exc_msg |-> ExcMsgOrDefault(exc_msg),
                returncode |-> 0, stdout |-> "", stderr |-> <<>>,
                result |-> Return("None"),
                \* history, for the properties only: the argument as it was given
                given |-> exc_msg]
    /\ UNCHANGED nonCallVars

\* The command has ended: its output is returned, or an IIBError is raised.
RunCmdExit(returncode, stdout, stderr) ==
    /\ call.fn = "run_cmd" /\ call.pc = "running"
    /\ LET c == [call EXCEPT !.returncode = returncode, !.stdout = stdout,
                             !.stderr = stderr]
           match == IF call.cmd0 = "opm" THEN scan_stderr(stderr, Len(stderr))
                    ELSE None(<<>>)
       IN call' =
            IF returncode # 0
            THEN [c EXCEPT !.pc = "raised",
                           !.result =
                              IF match.some
                              THEN Raise("IIBError", "run_cmd",
                                         rstrip_dot(call.exc_msg) \o <<": ">> \o match.v)
                              ELSE Raise("IIBError", "run_cmd", call.exc_msg)]
            ELSE [c EXCEPT !.pc = "returned", !.result = Return(stdout)]
    /\ UNCHANGED nonCallVars

(***************************************************************************)
(* The specifications                                                      *)
(***************************************************************************)
TemplateContents ==
    {[auths |-> m, rest |-> x] :
        m \in {NoEntries, OneEntry("r1", "b2xk"), OneEntry("r2", "b2xk")},
        x \in {"credsStore"}}

FileContents ==
    {[auths |-> m, rest |-> ""] :
        m \in {NoEntries, OneEntry("r1", "bWluZQ=="), OneEntry("r2", "b2xk")}}

AuthsArgs ==
    {NoAuths, SomeAuths(NoEntries),
     SomeAuths(DictUpdate(OneEntry("r1", "dTpw"), OneEntry("r2", "dTpx")))}

RetryIdle ==
    retry = [pc |-> "idle", attempts |-> 1, wait_on |-> "Exception",
             remaining_attempts |-> 1, calls |-> <<>>, result |-> NoResult]

CredIdle ==
    /\ dockerConfig = Symlink
    /\ template = [kind |-> "json", content |-> EmptyConfig]
    /\ stack = <<>>

InspectIdle ==
    /\ cache = <<>>
    /\ insp = IdleInspect(1)

\* The credential path and the template as a worker may find them.
CredStart ==
    /\ template \in {[kind |-> "absent", content |-> EmptyConfig],
                     [kind |-> "bad", content |-> EmptyConfig]}
                    \cup {[kind |-> "json", content |-> c] : c \in TemplateContents}
    /\ dockerConfig \in {Absent, Symlink} \cup {PlainFile(c) : c \in FileContents}
    /\ stack = <<>>

InitCred == CredStart /\ RetryIdle /\ InspectIdle /\ PrepareIdle /\ IndexInfoIdle /\ BundlesIdle
    /\ CallIdle /\ ProcsIdle

NextCred ==
    \/ \E t \in Tokens, i \in Images : set_registry_token(t, i)
    \/ \E ra \in AuthsArgs : set_registry_auths(ra)
    \/ RemoveConfig
    \/ ReadTemplate
    \/ WriteConfig
    \/ WriteConfigFails
    \/ \E e \in {"none", "BodyError"} : BodyEnds(e)
    \/ ResetRemove
    \/ ResetSymlink
    \/ ScopeExit

SpecCred == InitCred /\ [][NextCred]_vars

InitRetry == CredIdle /\ RetryIdle /\ InspectIdle /\ PrepareIdle /\ IndexInfoIdle /\ BundlesIdle
    /\ CallIdle /\ ProcsIdle

NextRetry ==
    \/ \E n \in 1..MaxAttempts, w \in {"Exception", "IIBError"} : RetryCall(n, w)
    \/ \E o \in Outcomes : RetryInvoke(o)
    \/ RetryDone

SpecRetry == InitRetry /\ [][NextRetry]_vars

\* An empty cache, and iib_total_attempts as configured.
InspectStart ==
    /\ cache = <<>>
    /\ \E n \in 1..MaxAttempts : insp = IdleInspect(n)

InitInspect == CredIdle /\ RetryIdle /\ PrepareIdle /\ InspectStart /\ IndexInfoIdle /\ BundlesIdle
    /\ CallIdle /\ ProcsIdle

NextInspect ==
    \/ \E key \in InspectKeys : InspectCall(key)
    \/ InspectCacheHit
    \/ \E out \in {CommandFailed} \cup
                   {Stdout(d, m, v) : d \in {"manifest", "config", "inspect"},
                                      m \in {ManifestList, ManifestV2, "None"},
                                      v \in 0..2} : InspectRun(out)
    \/ InspectDone

SpecInspect == InitInspect /\ [][NextInspect]_vars

\* The distribution_scope label of an index: none, a scope, or another value.
ScopeLabels == {"None", "dev", "stage", "prod", "qa"}

\* The manifests of a binary image: manifest lists (one of them with an entry
\* without architecture, one without 'manifests'), a v2 manifest, an OCI index.
BinaryManifests ==
    {RawManifest(ManifestList, Some(l)) :
        l \in {<<>>, <<"amd64">>, <<"amd64", "s390x">>, <<"amd64", "ppc64le", "s390x">>,
               <<"amd64", "None">>}}
    \cup {RawManifest(ManifestList, None(<<>>)),
          RawManifest(ManifestV2, None(<<>>)),
          RawManifest("application/vnd.oci.image.index.v1+json", None(<<>>))}

InitPrepare == CredIdle /\ RetryIdle /\ InspectIdle /\ PrepareIdle /\ IndexInfoIdle /\ BundlesIdle
    /\ CallIdle /\ ProcsIdle

NextPrepare ==
    \/ \E cfg \in AddRmConfigs \cup MergeConfigs : PrepareCall(cfg)
    \/ IndexAbsent
    \/ \E a \in {{"amd64"}, {"amd64", "s390x"}},
          v \in {"None", "v4.6"},
          sc \in ScopeLabels : IndexResolved(a, v, sc)
    \/ \E cls \in {"IIBError", "KeyError"} : IndexFails(cls)
    \/ GatherArches
    \/ ValidateScope
    \/ SelectBinaryImage
    \/ \E raw \in BinaryManifests, out \in {ImageConfig("None"), ImageConfig("amd64")} :
          BinaryImageResolved(raw, out)
    \/ \E cls \in {"IIBError", "KeyError"} : BinaryImageFails(cls)
    \/ CheckArches
    \/ \E op \in {"None", "", "op1", "op2"} : MapBundle(op)
    \/ MapBundleFails
    \/ ReturnPlan
    \/ PrepareDone

SpecPrepare == InitPrepare /\ [][NextPrepare]_vars

InitIndexInfo == CredStart /\ RetryIdle /\ InspectIdle /\ PrepareIdle /\ IndexInfoIdle /\ BundlesIdle
    /\ CallIdle /\ ProcsIdle

\* One call of get_index_image_info at a time, with nothing else using the
\* credential file: the default_ocp_version values are those
\* prepare_request_for_build passes.
NextIndexInfo ==
    \/ \E t \in Tokens, f \in {"None", "", IndexRef}, d \in {"v4.5", "v4.6"} :
          IndexInfoCall(t, f, d)
    \/ IndexInfoEnter
    \/ idx.pc = "scope" /\ RemoveConfig
    \/ idx.pc = "scope" /\ ReadTemplate
    \/ idx.pc = "scope" /\ WriteConfig
    \/ idx.pc = "scope" /\ WriteConfigFails
    \/ \E o \in BodyOutcomes : IndexInfoBody(o)
    \/ idx.pc = "scope" /\ ResetRemove
    \/ idx.pc = "scope" /\ ResetSymlink
    \/ IndexInfoLeave
    \/ IndexInfoDone

SpecIndexInfo == InitIndexInfo /\ [][NextIndexInfo]_vars

InitBundles == CredIdle /\ RetryIdle /\ InspectIdle /\ PrepareIdle /\ IndexInfoIdle /\ BundlesIdle
    /\ CallIdle /\ ProcsIdle

\* The lists of at most n pull specs.
BundleLists(n) == UNION {[1..l -> BundleSpecs] : l \in 0..n}

\* The raw manifests of a bundle; a schema 1 manifest carries no mediaType.
BundleRaws ==
    {BundleRaw(ManifestList, 2, ms) :
        ms \in {Some(<<Digest("aa"), Digest("bb")>>), Some(<<Digest("bb"), Digest("aa")>>),
                Some(<<>>), None(<<>>)}}
    \cup {BundleRaw(ManifestV2, v, None(<<>>)) : v \in {1, 2}}
    \cup {BundleRaw("application/vnd.oci.image.manifest.v1+json", 2, None(<<>>)),
          BundleRaw("None", 1, None(<<>>))}

\* How get_resolved_image ends: with the digest of the manifest, or in an error.
ImageOutcomes ==
    {[ok |-> TRUE, digest |-> Digest(h)] : h \in {"aa", "cc"}}
    \cup {[ok |-> FALSE, digest |-> <<>>]}

NextBundles ==
    \/ \E bundles \in BundleLists(MaxBundles) : ResolveCall(bundles)
    \/ \E skopeo_raw \in BundleRaws, image \in ImageOutcomes :
          ResolveBundle(skopeo_raw, image)
    \/ ResolveInspectFails
    \/ \E order \in [1..Cardinality(rb.resolved_bundles) -> rb.resolved_bundles] :
          ResolveReturn(order)
    \/ ResolveDone

SpecBundles == InitBundles /\ [][NextBundles]_vars

InitDeprecation ==
    /\ CredIdle /\ RetryIdle /\ InspectIdle /\ PrepareIdle /\ IndexInfoIdle /\ BundlesIdle
    /\ CallIdle /\ ProcsIdle

\* The raw manifests the deprecated bundles have.
DeprecationRaws ==
    {BundleRaw(ManifestList, 2, Some(<<Digest("aa"), Digest("bb")>>)),
     BundleRaw(ManifestV2, 2, None(<<>>)),
     BundleRaw(ManifestV2, 1, None(<<>>))}

NextDeprecation ==
    \/ \E bundles \in BundleLists(MaxBundles), deprecation_list \in BundleLists(MaxBundles) :
          DeprecationCall(bundles, deprecation_list)
    \/ \E skopeo_raw \in DeprecationRaws,
          image \in {o \in ImageOutcomes : o.digest # Digest("cc")} :
          ResolveBundle(skopeo_raw, image)
    \/ ResolveInspectFails
    \/ \E order \in [1..Cardinality(rb.resolved_bundles) -> rb.resolved_bundles] :
          ResolveReturn(order)
    \/ DeprecationFilter
    \/ DeprecationFails
    \/ CallDone

SpecDeprecation == InitDeprecation /\ [][NextDeprecation]_vars

InitEq ==
    /\ CredIdle /\ RetryIdle /\ InspectIdle /\ PrepareIdle /\ IndexInfoIdle /\ BundlesIdle
    /\ CallIdle /\ ProcsIdle

\* The configs that are compared: without scope, arches and bundles.
EqConfigs ==
    {c \in AddRmConfigs \cup MergeConfigs :
        /\ c.distribution_scope = "None" /\ c.binary_image_config = "empty"
        /\ c.add_arches = None({}) /\ c.bundles = None(<<>>)}

NextEq ==
    \/ \E self \in EqConfigs, other \in EqConfigs : EqCall(self, other)
    \/ CallDone

SpecEq == InitEq /\ [][NextEq]_vars

InitRace ==
    /\ dockerConfig = Symlink
    /\ template \in {[kind |-> "absent", content |-> EmptyConfig],
                     [kind |-> "bad", content |-> EmptyConfig],
                     [kind |-> "json", content |-> EmptyConfig]}
    /\ stack = <<>>
    /\ RetryIdle /\ InspectIdle /\ PrepareIdle /\ IndexInfoIdle /\ BundlesIdle
    /\ CallIdle /\ ProcsIdle

\* The registry_auths of the workers: one registry each.
WorkerAuths == {SomeAuths(OneEntry("r1", "dTpw")), SomeAuths(OneEntry("r2", "dTpx"))}

\* Two workers, each a sequence of scopes, with nothing to serialise them.
NextRace ==
    \E w \in Workers :
        \/ \E registry_auths \in WorkerAuths : WorkerEnter(w, registry_auths)
        \/ WorkerRemove(w)
        \/ WorkerRead(w)
        \/ WorkerWrite(w)
        \/ \E e \in {"none", "BodyError"} : WorkerBodyEnds(w, e)
        \/ WorkerResetRemove(w)
        \/ WorkerResetSymlink(w)
        \/ WorkerLeave(w)

SpecRace == InitRace /\ [][NextRace]_vars

InitReset ==
    /\ CredStart
    /\ RetryIdle /\ InspectIdle /\ PrepareIdle /\ IndexInfoIdle /\ BundlesIdle
    /\ CallIdle /\ ProcsIdle

\* reset_docker_config from every state of the path and of the template.
NextReset ==
    \/ ResetCall
    \/ ResetCallRemove
    \/ ResetCallSymlink
    \/ CallDone

SpecReset == InitReset /\ [][NextReset]_vars

InitScopes ==
    /\ CredIdle
    /\ RetryIdle /\ InspectIdle /\ PrepareIdle /\ IndexInfoIdle /\ BundlesIdle
    /\ CallIdle /\ ProcsIdle

\* Requests with and without a token, with their own binary image.
ScopedConfigs ==
    {[c EXCEPT !.overwrite_from_index_token = t] :
        c \in {a \in AddRmConfigs :
                 /\ a._binary_image = "binary:override" /\ a.distribution_scope = "None"
                 /\ a.binary_image_config = "empty" /\ a.add_arches = None({})
                 /\ a.bundles \in {None(<<>>), Some(BundleList(1))}},
        t \in {"None", "u:p"}}
    \cup
    {[c EXCEPT !.overwrite_target_index_token = t] :
        c \in {g \in MergeConfigs :
                 /\ g._binary_image = "binary:override" /\ g.distribution_scope = "None"
                 /\ g.binary_image_config = "empty"},
        t \in {"None", "u:p"}}

\* How the body of a scope ends here: with one set of findings, or in the
\* failure of the first or of the last lookup.
ScopedOutcomes ==
    {o \in BodyOutcomes :
        IF o.ok THEN o.arches = {"amd64"} /\ o.version_label = "v4.6" /\ o.scope_label = "None"
        ELSE o.n \in {1, Len(BodyCalls)}}

\* prepare_request_for_build with the credential scopes of its indexes.
NextScopes ==
    \/ \E cfg \in ScopedConfigs : PrepareCall(cfg)
    \/ AllIndexesCall
    \/ IndexInfoEnter
    \/ idx.pc = "scope" /\ RemoveConfig
    \/ idx.pc = "scope" /\ ReadTemplate
    \/ idx.pc = "scope" /\ WriteConfig
    \/ idx.pc = "scope" /\ WriteConfigFails
    \/ \E o \in ScopedOutcomes : IndexInfoBody(o)
    \/ idx.pc = "scope" /\ ResetRemove
    \/ idx.pc = "scope" /\ ResetSymlink
    \/ IndexInfoLeave
    \/ AllIndexesNext
    \/ AllIndexesRaise
    \/ GatherArches
    \/ ValidateScope
    \/ SelectBinaryImage
    \/ \E raw \in {RawManifest(ManifestList, Some(<<"amd64">>)),
                    RawManifest(ManifestList, Some(<<>>))} :
          BinaryImageResolved(raw, ImageConfig("None"))
    \/ BinaryImageFails("IIBError")
    \/ CheckArches
    \/ \E op \in {"None", "op1"} : MapBundle(op)
    \/ MapBundleFails
    \/ ReturnPlan
    \/ PrepareDone

SpecScopes == InitScopes /\ [][NextScopes]_vars

InitRunCmd ==
    /\ CredIdle /\ RetryIdle /\ InspectIdle /\ PrepareIdle /\ IndexInfoIdle /\ BundlesIdle
    /\ CallIdle /\ ProcsIdle

\* The lines of stderr: with a message, without one, with 'Error: ' further
\* in, and the help display.
StderrLines ==
    {<<"Error: ", "m1">>, <<"Error: ", "m2", ".">>, <<"Error: ">>,
     <<"warning ", "Error: ", "m3">>, <<"Usage:">>}

\* The exc_msg arguments: none, an empty one, with and without dots at the end.
ExcMsgs ==
    {None(<<>>), Some(<<>>), Some(<<"ctx">>), Some(<<"ctx", ".">>),
     Some(<<"c", ".", "tx", ".", ".">>)}

NextRunCmd ==
    \/ \E cmd0 \in {"opm", "podman"}, exc_msg \in ExcMsgs : RunCmdCall(cmd0, exc_msg)
    \/ \E returncode \in {0, 1, 2}, stdout \in {"", "out"},
          stderr \in UNION {[1..n -> StderrLines] : n \in 0..MaxLines} :
          RunCmdExit(returncode, stdout, stderr)
    \/ CallDone

SpecRunCmd == InitRunCmd /\ [][NextRunCmd]_vars

InitImage ==
    /\ CredIdle /\ RetryIdle /\ InspectIdle /\ PrepareIdle /\ IndexInfoIdle /\ BundlesIdle
    /\ CallIdle /\ ProcsIdle

\* get_resolved_image and get_image_arches on the outputs of their inspections.
NextImage ==
    \/ \E pull_spec \in BundleSpecs : ResolvedImageCall(pull_spec)
    \/ \E t \in {"B1", "B2", "B3"}, v \in 0..2 : ResolvedImageRaw(RawOutput(t, v))
    \/ \E d \in {"None", Digest("d1"), Digest("d2")} : ResolvedImageInspect(d)
    \/ ResolvedImageInspectFails
    \/ \E pull_spec \in BundleSpecs : ImageArchesCall(pull_spec)
    \/ \E skopeo_raw \in BinaryManifests \cup {RawManifest("None", None(<<>>))} :
          ImageArchesRaw(skopeo_raw)
    \/ \E a \in {"amd64", "s390x", "None"} : ImageArchesConfig(ImageConfig(a))
    \/ ImageArchesInspectFails
    \/ CallDone

SpecImage == InitImage /\ [][NextImage]_vars

\* All components side by side.
Init == CredStart /\ RetryIdle /\ InspectStart /\ PrepareIdle /\ IndexInfoIdle /\ BundlesIdle
    /\ CallIdle /\ ProcsIdle

Next ==
    \/ NextCred \/ NextRetry \/ NextInspect \/ NextPrepare \/ NextIndexInfo \/ NextBundles
    \/ NextImage \/ NextDeprecation \/ NextEq \/ NextRace \/ NextReset \/ NextScopes
    \/ NextRunCmd

Spec == Init /\ [][Next]_vars

(***************************************************************************)
(* Properties of the credential scopes                                     *)
(***************************************************************************)
Frames == {stack[i] : i \in DOMAIN stack}
Overriding == {f \in Frames : ~f.pass}
CurrentRead == ReadState(dockerConfig, template)

\* The auths a reader found at the credential path before the call (none if
\* the path was absent or unreadable).
PreAuths(f) == IF f.pre.exists /\ f.pre.parses THEN f.pre.content.auths ELSE NoEntries
TemplateAuths == IF template.kind = "json" THEN template.content.auths ELSE NoEntries

\* m is base with the entries of extra merged in.
IsMerge(m, base, extra) ==
    /\ DOMAIN m = (DOMAIN base) \cup (DOMAIN extra)
    /\ \A r \in DOMAIN extra : m[r] = extra[r]
    /\ \A r \in (DOMAIN base) \ (DOMAIN extra) : m[r] = base[r]

\* C1: after a credential scope that overrides exits, by return or by
\* exception, the credential file's existence and content equal what they were
\* immediately before the call.
C1_RestoredToPreCall ==
    \A f \in Overriding : f.pc = "exited" => CurrentRead = f.pre

\* C2: once set_registry_auths is entered with a non-empty mapping,
\* reset_docker_config runs exactly once on every exit path (the body returns,
\* the body raises, the set-up fails), never before the exit, and the failure
\* that was raised is the one the scope leaves with.
C2_ResetExactlyOnce ==
    \A f \in Overriding :
        /\ f.resets <= 1
        /\ f.pc \in {"remove", "read", "write", "body"} => f.resets = 0
        /\ f.pc = "exited" => f.resets = 1 /\ f.exc = f.raised

C2_Witness ==
    \E f \in Overriding :
        f.pc = "exited" /\ f.resets = 1 /\ f.exc = "OSError" /\ f.bodyRuns = 0

\* C3 as stated: while the body of a scope runs, the credential file is a plain
\* file whose auths are those of the credential file as it was before the call
\* (none if it was absent) with the supplied entries merged in.
C3_BodySeesPreCallMerged ==
    \A f \in Overriding :
        f.pc = "body" =>
            /\ dockerConfig.kind = "file"
            /\ IsMerge(dockerConfig.content.auths, PreAuths(f), f.registry_auths.auths)

\* C3 as amended: from the start of the body until the body opens another
\* overriding scope, the credential file is a plain file holding the template's
\* document (an empty one if the template is absent) with the supplied entries
\* merged into its auths; for set_registry_token the entry of the image's
\* registry is base64(token).
C3_BodySeesTemplateMerged ==
    \A f \in Overriding :
        f.pc = "body" /\ f.inner = "none" =>
            /\ dockerConfig.kind = "file"
            /\ IsMerge(dockerConfig.content.auths, TemplateAuths, f.registry_auths.auths)
            /\ dockerConfig.content.rest =
                    (IF template.kind = "json" THEN template.content.rest ELSE "")
            /\ f.fn = "set_registry_token" =>
                    /\ ImageRegistry(f.image) \in DOMAIN dockerConfig.content.auths
                    /\ dockerConfig.content.auths[ImageRegistry(f.image)] = b64encode(f.token)

C3_Witness ==
    \E f \in Overriding :
        /\ f.pc = "body" /\ f.inner = "none" /\ f.fn = "set_registry_token"
        /\ f.image = "r1/ns/index:v1"
        /\ DOMAIN dockerConfig.content.auths = {"r1", "r2"}

\* C4: with the token or the image reference absent or empty,
\* set_registry_token is a pass-through: the body runs exactly once and the
\* scope neither reads, removes, writes nor resets the credential file, which
\* stays as it was for as long as the body opens no overriding scope itself.
C4_PassThroughTouchesNothing ==
    \A f \in Frames :
        f.fn = "set_registry_token" /\ f.argAbsent =>
            /\ f.fsOps = 0 /\ f.resets = 0
            /\ f.bodyRuns <= 1
            /\ f.pc = "exited" => f.bodyRuns = 1
            /\ f.inner = "none" => dockerConfig = f.prePath

C4_Witness ==
    \E f \in Frames :
        /\ f.fn = "set_registry_token" /\ f.argAbsent /\ f.pc = "exited"
        /\ f.bodyRuns = 1 /\ dockerConfig.kind = "file"

\* C5: after an overriding scope opened inside the body of another overriding
\* scope has exited, and while the outer body still runs, the outer scope's
\* override entries are still in the credential file.
C5_OuterOverrideSurvivesInner ==
    \A f \in Overriding :
        f.pc = "body" /\ f.inner = "exited" =>
            /\ CurrentRead.exists /\ CurrentRead.parses
            /\ \A r \in DOMAIN f.registry_auths.auths :
                    /\ r \in DOMAIN CurrentRead.content.auths
                    /\ CurrentRead.content.auths[r] = f.registry_auths.auths[r]

(***************************************************************************)
(* Properties of the retry wrapper                                         *)
(***************************************************************************)
\* A retryable failure, as the wrapper in progress sees it.
Retryable(o) == o.kind = "raise" /\ Catches(retry.wait_on, o.val)
NotRetryable(o) == o.kind = "raise" /\ ~(retry.wait_on = "Exception" \/ retry.wait_on = o.val)
NCalls == Len(retry.calls)

C7_OtherFailurePropagates ==
    \A i \in 1..NCalls :
        NotRetryable(retry.calls[i]) =>
            /\ i = NCalls
            /\ retry.pc \in {"raised", "idle"}
            /\ retry.result = [kind |-> "raise", val |-> retry.calls[i].val, from |-> i]
            /\ retry.remaining_attempts = retry.attempts - (i - 1)

C7_Witness ==
    /\ retry.pc = "raised" /\ retry.attempts = 3 /\ NCalls = 2
    /\ retry.wait_on = "IIBError" /\ retry.calls[2].val = "KeyError"

(***************************************************************************)
(* Properties of skopeo_inspect                                            *)
(***************************************************************************)
\* The value is what a successful call with this signature returns: the command
\* exited 0 and, where the call requires a media type, the output has one.
SuccessOf(key, res) ==
    /\ res.kind = "return" /\ res.out.rc = 0
    /\ key.return_json /\ key.require_media_type => res.out.mediaType # "None"

\* C8: every cache entry is the result of a call that succeeded; a call that
\* fails (the command exits non-zero, or 'mediaType not found') has run the
\* command at each of its attempts and leaves the cache as it found it, with
\* no entry for its arguments, so the next call with them runs the command again.
C8_FailuresNeverCached ==
    /\ \A key \in DOMAIN cache : SuccessOf(key, cache[key])
    /\ insp.pc = "raised" =>
            /\ cache = insp.cacheAtCall
            /\ insp.key \notin DOMAIN cache
            /\ insp.runs >= 1 /\ insp.hits = 0

C8_Witness ==
    /\ insp.pc = "raised" /\ insp.key.ref = DigestRefV1 /\ insp.key.require_media_type
    /\ insp.result.out.rc = 0 /\ insp.runs = 2
    /\ DOMAIN cache # {}

(***************************************************************************)
(* Properties of prepare_request_for_build                                 *)
(***************************************************************************)
Scopes == {"dev", "stage", "prod"}
\* dev < stage < prod
ScopeRank(x) == CASE x = "dev" -> 1 [] x = "stage" -> 2 [] OTHER -> 3

\* The call in progress failed at the named step.
FailedAt(step) == prep.pc = "raised" /\ prep.result.at = step

\* C9: for a resolved scope in {dev, stage, prod} and a requested scope in
\* {none, dev, stage, prod}, the validation fails, with an IIBError, iff a scope
\* was requested and it ranks above the resolved one; otherwise it yields the
\* resolved scope when none was requested and the requested scope when one was.
C9_ScopeValidation ==
    LET resolved == prep.resolved_distribution_scope
        requested == prep.cfg.distribution_scope
        failed == FailedAt("distribution_scope")
    IN resolved \in Scopes /\ requested \in Scopes \cup {"None"} =>
        /\ failed <=> (requested # "None" /\ ScopeRank(requested) > ScopeRank(resolved))
        /\ failed => prep.result.cls = "IIBError"
        /\ ~failed => prep.distribution_scope =
                          (IF requested = "None" THEN resolved ELSE requested)

C9_Witness ==
    /\ prep.pc = "binary_image"
    /\ prep.resolved_distribution_scope = "prod" /\ prep.cfg.distribution_scope = "prod"
    /\ prep.distribution_scope = "prod"
    /\ prep.cfg.variant = "RequestConfigMerge"

\* C10: the subset check fails iff some requested architecture is not one of
\* the binary image's; the failure lists exactly those architectures, in sorted
\* order; every plan returned has arches non-empty and within the binary
\* image's arches.
C10_ArchSubsetCheck ==
    LET R == prep.arches
        A == prep.binary_image_arches
        checked == prep.pc \in {"bundles", "return", "returned"}
                   \/ FailedAt("binary_image_arches") \/ FailedAt("bundles")
        failed == FailedAt("binary_image_arches")
        listed == prep.result.detail
    IN /\ checked => (failed <=> R \ A # {})
       /\ failed =>
            /\ prep.result.cls = "IIBError"
            /\ {listed[j] : j \in DOMAIN listed} = R \ A
            /\ \A j \in 1..(Len(listed) - 1) : ArchOrder(listed[j]) < ArchOrder(listed[j + 1])
       /\ prep.pc = "returned" =>
            /\ prep.result.val.arches # {}
            /\ prep.result.val.arches \subseteq A

C10_Witness ==
    /\ FailedAt("binary_image_arches")
    /\ prep.binary_image_arches = {"amd64"}
    /\ prep.result.detail = <<"ppc64le", "s390x">>

\* The union of the arches of the three index image infos.
InfoArches(index_info) ==
    index_info["from_index"].arches \cup index_info["source_from_index"].arches
        \cup index_info["target_index"].arches

\* The architectures have been gathered, with or without success.
Gathered ==
    prep.pc \notin {"idle", "index_info", "arches"} /\ ~FailedAt("index_info")

\* C11: the gathered architectures are exactly the union of the add_arches of
\* an add/remove config (when set) and the arches of every index image info;
\* the gathering fails, with an IIBError, iff that union is empty; for a merge
\* config the result is the union of the infos' arches alone.
C11_GatheredArchesAreTheUnion ==
    LET requested == IF prep.cfg.variant = "RequestConfigAddRm" /\ prep.cfg.add_arches.some
                     THEN prep.cfg.add_arches.v ELSE {}
        union == requested \cup InfoArches(prep.index_info)
    IN Gathered =>
        /\ FailedAt("arches") <=> union = {}
        /\ FailedAt("arches") => prep.result.cls = "IIBError"
        /\ ~FailedAt("arches") => prep.arches = union
        /\ ~FailedAt("arches") /\ prep.cfg.variant = "RequestConfigMerge" =>
              prep.arches = InfoArches(prep.index_info)

\* A merge request whose two indexes were built for different architectures.
C11_Witness ==
    /\ prep.pc = "distribution_scope"
    /\ prep.cfg.variant = "RequestConfigMerge"
    /\ prep.index_info["source_from_index"].arches = {"amd64"}
    /\ prep.index_info["target_index"].arches = {"amd64", "s390x"}
    /\ prep.arches = {"amd64", "s390x"}

(***************************************************************************)
(* Properties of get_index_image_info                                      *)
(***************************************************************************)
\* A call without from_index has returned.
ReturnedForAbsentIndex == idx.pc = "returned" /\ idx.from_index \in {"None", ""}

\* Nothing was inspected and the credential file is as it was at the call.
NothingInspectedOrTouched ==
    /\ idx.inspections = <<>>
    /\ idx.scopes = 0 /\ stack = <<>>
    /\ dockerConfig = idx.path0

\* C12, as stated: without from_index the info returned has ocp_version
\* 'v4.5', scope 'prod', no arches and no resolved pull spec, and nothing was
\* inspected and the credential file was not touched, whatever the token.
C12_AbsentIndexGivesV45 ==
    ReturnedForAbsentIndex =>
        /\ idx.result = [resolved_from_index |-> "None", ocp_version |-> "v4.5",
                         arches |-> {}, resolved_distribution_scope |-> "prod"]
        /\ NothingInspectedOrTouched

\* C12, amended: the ocp_version returned is the default_ocp_version the
\* function was called with; the rest as stated.
C12_AbsentIndexGivesCallersDefault ==
    ReturnedForAbsentIndex =>
        /\ idx.result = [resolved_from_index |-> "None",
                         ocp_version |-> idx.default_ocp_version,
                         arches |-> {}, resolved_distribution_scope |-> "prod"]
        /\ NothingInspectedOrTouched

\* A call with a token and the default of the target_index, while the
\* credential file is a plain file.
C12_Witness ==
    /\ ReturnedForAbsentIndex
    /\ idx.token = "u:p" /\ idx.default_ocp_version = "v4.6"
    /\ idx.result.ocp_version = "v4.6"
    /\ dockerConfig.kind = "file"

(***************************************************************************)
(* Properties of the plan's versions and scopes                            *)
(***************************************************************************)
\* The index references a request of this variant is about.
RelevantIndexes(cfg) ==
    IF cfg.variant = "RequestConfigAddRm" THEN {"from_index"}
    ELSE {"source_from_index", "target_index"}

\* The ocp version the plan records for an index.
PlanVersion(plan, index) ==
    CASE index = "from_index" -> plan.ocp_version
      [] index = "source_from_index" -> plan.source_ocp_version
      [] OTHER -> plan.target_ocp_version

\* The label found on the index, or the fallback when the label or the index
\* itself is absent.
LabelOr(label, fallback) == IF label = "None" THEN fallback ELSE label

\* The fallback for an absent reference, by the role of the index.
RoleDefault(index) == IF index = "target_index" THEN "v4.6" ELSE "v4.5"

ScopePicked ==
    prep.pc \notin {"idle", "index_info", "arches", "distribution_scope"}
    /\ ~FailedAt("index_info") /\ ~FailedAt("arches")

\* C14: the scope validated as the resolved one is the from_index info's for
\* every add/remove config and the target_index info's for every merge
\* config, also for a merge config without source_from_index.
C14_MergeValidatesTargetScope ==
    ScopePicked =>
        prep.resolved_distribution_scope =
            IF prep.cfg.variant = "RequestConfigAddRm"
            THEN prep.index_info["from_index"].resolved_distribution_scope
            ELSE prep.index_info["target_index"].resolved_distribution_scope

(***************************************************************************)
(* Properties of the binary image                                          *)
(***************************************************************************)
\* The binary image has been chosen, with or without success.
BinaryImageChosen ==
    prep.pc \in {"resolve_binary_image", "check_arches", "bundles", "return", "returned"}
    \/ \E step \in {"binary_image", "resolve_binary_image", "binary_image_arches", "bundles"} :
          FailedAt(step)

RECURSIVE BundlesOf(_, _, _, _)
BundlesOf(bundles, operators, operator, n) ==
    IF n = 0 THEN <<>>
    ELSE BundlesOf(bundles, operators, operator, n - 1)
            \o (IF operators[n] = operator THEN <<bundles[n]>> ELSE <<>>)

\* How many lookups of a bundle's labels were made.
BundleLookups == Cardinality({j \in DOMAIN prep.calls : prep.calls[j] = "bundles"})

\* C16: the bundle mapping of a plan has one key for every non-empty package
\* label found on an input bundle, and under it the bundles carrying that
\* label, once per occurrence and in input order; a bundle without the label
\* is under no key, and finding no label does not fail the preparation.
C16_BundlesGroupedByPackage ==
    /\ prep.pc \in {"return", "returned"} =>
         /\ Len(prep.operators) = Len(prep.bundles)
         /\ DOMAIN prep.bundle_mapping =
               {prep.operators[j] : j \in DOMAIN prep.operators} \ {"None", ""}
         /\ \A operator \in DOMAIN prep.bundle_mapping :
               prep.bundle_mapping[operator] =
                 BundlesOf(prep.bundles, prep.operators, operator, Len(prep.bundles))
    /\ prep.pc = "returned" => prep.result.val.bundle_mapping = prep.bundle_mapping
    /\ FailedAt("bundles") => BundleLookups = Len(prep.operators) + 1

\* Two bundles of the same package.
C16_Witness ==
    /\ prep.pc = "returned" /\ prep.cfg.variant = "RequestConfigAddRm"
    /\ prep.bundles = <<"b1", "b2">> /\ prep.operators = <<"op1", "op1">>
    /\ prep.result.val.bundle_mapping = [o \in {"op1"} |-> <<"b1", "b2">>]

(***************************************************************************)
(* Properties of the preparation as a whole                                *)
(***************************************************************************)
\* The steps of the preparation, in order.
StepOrder(step) ==
    CASE step = "index_info" -> 1
      [] step = "arches" -> 2
      [] step = "distribution_scope" -> 3
      [] step = "binary_image" -> 4
      [] step = "resolve_binary_image" -> 5
      [] step = "binary_image_arches" -> 6
      [] OTHER -> 7

PlanKeys ==
    {"arches", "binary_image", "binary_image_resolved", "bundle_mapping",
     "from_index_resolved", "ocp_version", "distribution_scope",
     "source_from_index_resolved", "source_ocp_version",
     "target_index_resolved", "target_ocp_version"}

\* C17: the preparation returns a plan with all of its keys or raises; a
\* failure ends it at once, so that no lookup of a later step is made and
\* nothing is returned; the lookups are made in the order of the steps.
C17_CompletePlanOrFailure ==
    /\ prep.pc = "returned" =>
          prep.result.kind = "return" /\ DOMAIN prep.result.val = PlanKeys
    /\ prep.result.kind = "raise" => prep.pc = "raised"
    /\ prep.pc = "raised" =>
          /\ prep.result.kind = "raise" /\ prep.result.val = "None"
          /\ \A j \in DOMAIN prep.calls :
                StepOrder(prep.calls[j]) <= StepOrder(prep.result.at)
          /\ StepOrder(prep.result.at) < 5 =>
                prep.binary_image_resolved = "None" /\ prep.binary_image_arches = {}
          /\ StepOrder(prep.result.at) < 7 => prep.bundle_mapping = <<>>
    /\ \A j \in 1..(Len(prep.calls) - 1) :
          StepOrder(prep.calls[j]) <= StepOrder(prep.calls[j + 1])

\* No binary image is configured for the index that was inspected.
C17_Witness ==
    /\ FailedAt("binary_image")
    /\ prep.calls = <<"index_info">>
    /\ prep.bundles # <<>>

\* C18: every failure of the preparation reaches the caller as an IIBError.
C18_EveryFailureIsIIBError ==
    prep.pc = "raised" => prep.result.cls = "IIBError"

(***************************************************************************)
(* Properties of get_resolved_bundles                                      *)
(***************************************************************************)
\* The text of a pull spec before its '@', or before its last ':' without '@'.
NameOf(pull_spec) ==
    CASE pull_spec = TagSpec -> <<"r1/ns/b">>
      [] pull_spec = DigestSpec -> <<"r1/ns/b">>
      [] pull_spec = PortSpec -> <<"r1">>

\* The turns of the loop whose raw manifest was a manifest list with an entry.
ListTurns ==
    {j \in DOMAIN rb.raws :
        /\ rb.raws[j].mediaType = "application/vnd.docker.distribution.manifest.list.v2+json"
        /\ rb.raws[j].manifests.some /\ rb.raws[j].manifests.v # <<>>}

\* '<name>@<digest of the first entry of manifests>' for the j-th bundle
FirstEntryPinned(j) == NameOf(rb.bundles[j]) \o <<"@">> \o rb.raws[j].manifests.v[1]

\* C19: a bundle whose raw manifest is a manifest list resolves to
\* '<name>@<digest of the first entry>', whatever its place in the list and
\* whatever was resolved before it; the list returned holds every resolved
\* string once.
C19_ManifestListResolvesToFirstEntry ==
    /\ \A j \in ListTurns : FirstEntryPinned(j) \in rb.resolved_bundles
    /\ rb.pc = "returned" =>
          LET out == rb.result.val
          IN /\ \A j \in ListTurns : \E n \in DOMAIN out : out[n] = FirstEntryPinned(j)
             /\ \A n1, n2 \in DOMAIN out : out[n1] = out[n2] => n1 = n2
             /\ {out[n] : n \in DOMAIN out} = rb.resolved_bundles

\* A tag and a digest of the same image resolve to one string.
C19_Witness ==
    /\ rb.pc = "returned"
    /\ rb.bundles = <<TagSpec, DigestSpec>>
    /\ ListTurns = {1, 2}
    /\ rb.result.val = <<<<"r1/ns/b", "@", "sha256", ":", "aa">>>>

\* The raw manifest the registry served in a turn of the loop is neither a
\* manifest list nor a v2 manifest of schema version 2.
NeitherListNorV2S2(raw) ==
    /\ raw # NoRaw
    /\ raw.mediaType # "application/vnd.docker.distribution.manifest.list.v2+json"
    /\ ~(raw.mediaType = "application/vnd.docker.distribution.manifest.v2+json"
          /\ raw.schemaVersion = 2)

\* The j-th bundle ended the call with an IIBError naming its media type and
\* schema version.
AbortedNaming(j) ==
    /\ j = Len(rb.raws) /\ rb.pc = "raised"
    /\ rb.result.cls = "IIBError"
    /\ rb.result.detail = <<rb.raws[j].mediaType, rb.raws[j].schemaVersion>>

\* A failure leaves no list.
NoListOnFailure == rb.pc = "raised" => rb.result.kind = "raise" /\ rb.result.val = "None"

\* C20, as stated: a bundle whose raw manifest is of any other media type and
\* schema version fails the call with an IIBError naming the two; a failure
\* aborts the whole call and no list is returned.
C20_AnyOtherManifestAbortsNamed ==
    /\ \A j \in DOMAIN rb.raws : NeitherListNorV2S2(rb.raws[j]) => AbortedNaming(j)
    /\ NoListOnFailure

\* C20, amended: the error names the media type and schema version when the
\* raw manifest has a mediaType; one without mediaType fails the call inside
\* skopeo_inspect, with an IIBError that names neither.
C20_UnsupportedManifestAborts ==
    /\ \A j \in DOMAIN rb.raws :
          NeitherListNorV2S2(rb.raws[j]) =>
             IF rb.raws[j].mediaType # "None" THEN AbortedNaming(j)
             ELSE /\ j = Len(rb.raws) /\ rb.pc = "raised"
                  /\ rb.result.cls = "IIBError" /\ rb.result.detail = <<>>
    /\ NoListOnFailure

\* The second bundle is a v2 manifest of schema version 1, the first resolved.
C20_Witness ==
    /\ rb.pc = "raised"
    /\ Len(rb.raws) = 2 /\ rb.resolved_bundles # {}
    /\ rb.raws[2].mediaType = "application/vnd.docker.distribution.manifest.v2+json"
    /\ rb.raws[2].schemaVersion = 1
    /\ rb.result.detail = <<"application/vnd.docker.distribution.manifest.v2+json", 1>>

(***************************************************************************)
(* Properties of get_resolved_image and get_image_arches                   *)
(***************************************************************************)
\* C21: get_resolved_image returns '<name>@<digest>'; for a raw manifest of
\* schema version 2 the digest is 'sha256:' and the hex SHA-256 of the raw
\* output, and one inspection is made; for any other schema version it is
\* the Digest field of a second, plain inspection, and nothing is hashed.
C21_HashOfRawOrDigestField ==
    call.fn = "get_resolved_image" /\ call.pc = "returned" =>
        LET name == NameOf(call.pull_spec)
        IN IF call.skopeo_output.schemaVersion = 2
           THEN /\ call.result.val = name \o <<"@", "sha256", ":">>
                                          \o <<sha256_hexdigest(call.skopeo_output.text)>>
                /\ call.inspections = <<"--raw">>
           ELSE /\ call.result.val = name \o <<"@">> \o call.digest_field
                /\ call.inspections = <<"--raw", "">>

\* A schema 1 manifest: the digest is the one the tool reports.
C21_Witness ==
    /\ call.fn = "get_resolved_image" /\ call.pc = "returned"
    /\ call.pull_spec = TagSpec
    /\ call.skopeo_output = RawOutput("B1", 1)
    /\ call.result.val = <<"r1/ns/b", "@", "sha256", ":", "d2">>

(***************************************************************************)
(* Properties of get_bundles_from_deprecation_list                         *)
(***************************************************************************)
InResolved(b) ==
    b \in {call.resolved_deprecation_list[j] : j \in DOMAIN call.resolved_deprecation_list}

\* C22: get_bundles_from_deprecation_list returns the sub-sequence of the
\* input bundles, in their order, whose pull spec as given is in the
\* resolved deprecation list; a bundle given by tag is not returned, even if
\* the digest it resolves to is in that list.
C22_KeepsLiteralMatchesInOrder ==
    call.fn = "get_bundles_from_deprecation_list" /\ call.pc = "returned" =>
        /\ call.result.val = SelectSeq(call.bundles, InResolved)
        /\ \A j \in DOMAIN call.result.val : call.result.val[j] # TagSpec

\* The tag of the first bundle resolves to the digest of the second, which
\* is listed: only the second is returned.
C22_Witness ==
    /\ call.fn = "get_bundles_from_deprecation_list" /\ call.pc = "returned"
    /\ call.bundles = <<TagSpec, DigestSpec>>
    /\ call.deprecation_list = <<TagSpec>>
    /\ call.resolved_deprecation_list = <<DigestSpec>>
    /\ call.result.val = <<DigestSpec>>

\* The manifest list has its 'manifests', each with an architecture.
ListReadable(skopeo_raw) ==
    /\ skopeo_raw.manifests.some
    /\ \A j \in DOMAIN skopeo_raw.manifests.v : skopeo_raw.manifests.v[j] # "None"

C24_EqualIffSameVariantAndFields ==
    call.fn = "__eq__" /\ call.pc = "returned" =>
        (call.result.val <=> /\ call.self.variant = call.other.variant
                             /\ \A x \in Slots(call.self.variant) :
                                    getattr(call.self, x) = getattr(call.other, x))

(***************************************************************************)
(* Properties of credential scopes that run side by side                   *)
(***************************************************************************)
\* An entry of the worker's registry_auths is not what a reader of the
\* credential path finds.
EntryMissing(w) ==
    LET found == ReadState(dockerConfig, template).content.auths
        own == procs[w].registry_auths.auths
    IN \E r \in DOMAIN own : r \notin DOMAIN found \/ found[r] # own[r]

BodyWithoutEntry(w) == procs[w].pc = "body" /\ EntryMissing(w)

RestorationFailed(w) == procs[w].pc = "exited" /\ procs[w].exc = "FileExistsError"

\* C25: two credential scopes that run side by side on one credential path
\* can interleave so that the body of one runs while its own entry is
\* missing from the file, or so that a restoration fails because the path
\* is there again; either happens only after the other scope has touched
\* the path in between.
C25_OnlyTheOtherScopeBreaksAScope ==
    \A w \in Workers :
        /\ BodyWithoutEntry(w) => procs[w].intruded
        /\ RestorationFailed(w) => procs[w].intruded

\* A worker is in its body without its entry in the file, and a restoration
\* of a worker has failed before.
C25_Witness ==
    /\ \E w \in Workers : BodyWithoutEntry(w)
    /\ \E w \in Workers : procs[w].reset_failed

(***************************************************************************)
(* Properties of reset_docker_config                                       *)
(***************************************************************************)
\* C26: from every state of the credential path and of the template,
\* reset_docker_config succeeds, once or several times in a row, and leaves
\* the same state each time: a symlink to the template if the template
\* exists, no file otherwise.
C26_ResetIsIdempotent ==
    call.fn = "reset_docker_config" /\ call.pc \in {"returned", "raised"} =>
        /\ call.pc = "returned"
        /\ dockerConfig = (IF template.kind # "absent" THEN Symlink ELSE Absent)
        /\ dockerConfig = call.after_first

\* The third call in a row on what was a plain file.
C26_Witness ==
    /\ call.fn = "reset_docker_config" /\ call.pc = "returned"
    /\ call.calls = 3
    /\ call.started.kind = "file"
    /\ dockerConfig = Symlink

(***************************************************************************)
(* Properties of the credential scopes of one preparation                  *)
(***************************************************************************)
\* C27: during one prepare_request_for_build the credential scopes of the
\* indexes are opened and closed one after another, never nested, each one
\* closed before the next index is resolved; none is open while the binary
\* image is resolved, while bundle labels are read, or when the call
\* returns or raises.
C27_ScopesAreSequential ==
    /\ Len(stack) <= 1
    /\ idx.scopes <= 1
    /\ stack # <<>> => prep.pc = "index_info" /\ idx.pc = "scope"
    /\ idx.pc \in {"idle", "enter", "returned", "raised"} => stack = <<>>
    /\ prep.pc # "index_info" => stack = <<>> /\ idx.pc = "idle"

\* The scope of the target index of a merge is open, after the scope of the
\* source index was opened and closed.
C27_Witness ==
    /\ prep.pc = "index_info" /\ prep.cfg.variant = "RequestConfigMerge"
    /\ IndexVersionMap[prep.i].index = "target_index"
    /\ "source_from_index" \in DOMAIN prep.found
    /\ prep.found["source_from_index"].inspected
    /\ Len(stack) = 1 /\ ~Top.pass /\ Top.pc = "body"

(***************************************************************************)
(* Properties of run_cmd                                                   *)
(***************************************************************************)
\* The caller's context string, or the generic one when none was supplied.
Context == IF call.given.some /\ call.given.v # <<>> THEN call.given.v
           ELSE <<"An unexpected error occurred">>

\* The lines of stderr of the form 'Error: <message>'.
ErrorLines == {j \in DOMAIN call.stderr :
                  Len(call.stderr[j]) > 1 /\ call.stderr[j][1] = "Error: "}

LastErrorLine == CHOOSE j \in ErrorLines : \A k \in ErrorLines : k <= j

\* The text without the dots it ends in.
WithoutTrailingDots(text) ==
    LET n == CHOOSE m \in 0..Len(text) :
                 /\ m = 0 \/ text[m] # "."
                 /\ \A j \in (m + 1)..Len(text) : text[j] = "."
    IN SubSeq(text, 1, n)

\* C28: run_cmd returns stdout iff the exit code is 0; on any other exit
\* code it raises IIBError, whose text for 'opm' with an 'Error: <message>'
\* line in stderr is the context string without its trailing '.', ': ' and
\* the message of the last such line, and in every other case the context
\* string itself, the generic one when none was supplied.
C28_StdoutOrIIBError ==
    call.fn = "run_cmd" /\ call.pc \in {"returned", "raised"} =>
        /\ call.pc = "returned" <=> call.returncode = 0
        /\ call.pc = "returned" =>
              call.result.kind = "return" /\ call.result.val = call.stdout
        /\ call.pc = "raised" =>
              /\ call.result.kind = "raise" /\ call.result.cls = "IIBError"
              /\ call.result.detail =
                    IF call.cmd0 = "opm" /\ ErrorLines # {}
                    THEN WithoutTrailingDots(Context) \o <<": ">>
                            \o Tail(call.stderr[LastErrorLine])
                    ELSE Context

\* opm fails with two error lines: the message of the second is reported.
C28_Witness ==
    /\ call.fn = "run_cmd" /\ call.pc = "raised"
    /\ call.cmd0 = "opm" /\ call.given = Some(<<"ctx", ".">>)
    /\ call.stderr = <<<<"Error: ", "m1">>, <<"Error: ", "m2", ".">>>>
    /\ call.result.detail = <<"ctx", ": ", "m2", ".">>

====
